---- MODULE Spec2Model ----
(***************************************************************************)
(* A model of the bip39 command-line tool: run of src/src/lib.rs, the      *)
(* command handlers of src/src/commands, the validators, the suggestion    *)
(* engine and the entropy analysis of src/src/security.rs, the error       *)
(* conversions of src/src/error.rs and the tables of src/src/cli.rs, over  *)
(* the mnemonic codec of the bip39 crate.                                  *)
(*                                                                         *)
(* Strings are sequences of characters; a character is a one-character     *)
(* string, or a token "U+xxxx" for a character outside ASCII.  Byte and    *)
(* word sizes are the program's: entropy of 16..32 bytes, words of 11      *)
(* bits, lists of 2048 words.  The word lists and SHA-256 live outside the *)
(* repository; they are replaced by stand-ins described where defined.     *)
(***************************************************************************)
EXTENDS Integers, Sequences, FiniteSets, TLC

VARIABLES
    pc,       \* "idle": no command has run; "done": a command has run
    cmd,      \* the invocation: the subcommand's name and its arguments
    stdout,   \* the lines the command printed, in order
    result,   \* what the handler returned, or that the process exited
    mem,      \* the secret buffers of the handler, as it left them
    origin,   \* for a piped run: the invocation whose output is the input
    trace     \* for a call of run: the steps it took, in order

vars == <<pc, cmd, stdout, result, mem, origin, trace>>

----------------------------------------------------------------------------
(* Characters *)

HexLower == <<"0","1","2","3","4","5","6","7","8","9","a","b","c","d","e","f">>
HexUpper == <<"0","1","2","3","4","5","6","7","8","9","A","B","C","D","E","F">>
LettersLower == <<"a","b","c","d","e","f","g","h","i","j","k","l","m",
                  "n","o","p","q","r","s","t","u","v","w","x","y","z">>
LettersUpper == <<"A","B","C","D","E","F","G","H","I","J","K","L","M",
                  "N","O","P","Q","R","S","T","U","V","W","X","Y","Z">>

Range(s) == {s[i] : i \in 1..Len(s)}

\* A sequence given by a rule for its i-th element, as the sequence of its
\* elements (the elements are computed once, not at every use).
AsSeq(s) == s \o <<>>

\* U+00E9 (e acute) takes two bytes in UTF-8, U+3000 (ideographic space)
\* and the kana U+3042.. take three.
TwoByteChars == {"U+00E9"}
ThreeByteChars == {"U+3000", "U+3042", "U+3044", "U+3046"}

\* str::len counts bytes, str::chars counts characters.
CharLen(c) == IF c \in TwoByteChars THEN 2 ELSE IF c \in ThreeByteChars THEN 3 ELSE 1

ByteLen(s) ==
    Len(s) + Cardinality({i \in 1..Len(s) : s[i] \in TwoByteChars})
           + 2 * Cardinality({i \in 1..Len(s) : s[i] \in ThreeByteChars})

HexDigits == Range(HexLower) \cup Range(HexUpper)

\* char::is_ascii_hexdigit
IsAsciiHexDigit(c) == c \in HexDigits

\* char::is_whitespace, as far as the alphabet of the model goes
IsWhitespace(c) == c \in {" ", "\t", "\n", "U+3000"}

LowerOf ==
    ("A" :> "a") @@ ("B" :> "b") @@ ("C" :> "c") @@ ("D" :> "d") @@
    ("E" :> "e") @@ ("F" :> "f") @@ ("G" :> "g") @@ ("H" :> "h") @@
    ("I" :> "i") @@ ("J" :> "j") @@ ("K" :> "k") @@ ("L" :> "l") @@
    ("M" :> "m") @@ ("N" :> "n") @@ ("O" :> "o") @@ ("P" :> "p") @@
    ("Q" :> "q") @@ ("R" :> "r") @@ ("S" :> "s") @@ ("T" :> "t") @@
    ("U" :> "u") @@ ("V" :> "v") @@ ("W" :> "w") @@ ("X" :> "x") @@
    ("Y" :> "y") @@ ("Z" :> "z")

ToLowerChar(c) == IF c \in DOMAIN LowerOf THEN LowerOf[c] ELSE c

\* str::to_lowercase
ToLowercase(s) == AsSeq([i \in 1..Len(s) |-> ToLowerChar(s[i])])

\* F applied to the value of v, which is computed once.
With(v, F(_)) == CHOOSE r \in {F(y) : y \in {v}} : TRUE

\* Result and Option values
Ok == [tag |-> "Ok"]
Err(e) == [tag |-> "Err", err |-> e]
Some(x) == <<x>>
None == <<>>

----------------------------------------------------------------------------
(* src/src/security.rs: validate_entropy_hex *)

expected_lengths == <<32, 40, 48, 56, 64>>

\* The hint of InvalidEntropyLength: the two numbers format! puts in it.
EntropyLengthHint(l) ==
    [words |-> IF l < 32 THEN 12 ELSE IF l < 40 THEN 15 ELSE IF l < 48 THEN 18
               ELSE IF l < 56 THEN 21 ELSE 24,
     chars |-> IF l < 32 THEN 32 ELSE IF l < 40 THEN 40 ELSE IF l < 48 THEN 48
               ELSE IF l < 56 THEN 56 ELSE 64]

\* The 1-based index of the first character that is no hex digit, 0 if none.
FirstNonHex(s) ==
    LET bad == {i \in 1..Len(s) : ~IsAsciiHexDigit(s[i])}
    IN IF bad = {} THEN 0 ELSE CHOOSE i \in bad : \A j \in bad : i <= j

\* validate_entropy_hex without the loop over the characters
validate_entropy_hex_length_only(hex_str) ==
    IF ByteLen(hex_str) \notin Range(expected_lengths)
    THEN Err([kind |-> "InvalidEntropyLength",
              actual |-> ByteLen(hex_str),
              expected |-> expected_lengths,
              hint |-> EntropyLengthHint(ByteLen(hex_str))])
    ELSE Ok

\* validate_entropy_hex with the loop over the characters before the
\* test of the length
validate_entropy_hex_characters_first(hex_str) ==
    IF FirstNonHex(hex_str) # 0
    THEN Err([kind |-> "InvalidHexString",
              message |-> "Entropy must be a valid hex string",
              position |-> Some(FirstNonHex(hex_str) - 1),
              hint |-> "Use only characters 0-9, a-f, A-F"])
    ELSE IF ByteLen(hex_str) \notin Range(expected_lengths)
    THEN Err([kind |-> "InvalidEntropyLength",
              actual |-> ByteLen(hex_str),
              expected |-> expected_lengths,
              hint |-> EntropyLengthHint(ByteLen(hex_str))])
    ELSE Ok

validate_entropy_hex(hex_str) ==
    IF ByteLen(hex_str) \notin Range(expected_lengths)
    THEN Err([kind |-> "InvalidEntropyLength",
              actual |-> ByteLen(hex_str),
              expected |-> expected_lengths,
              hint |-> EntropyLengthHint(ByteLen(hex_str))])
    ELSE IF FirstNonHex(hex_str) # 0
    THEN Err([kind |-> "InvalidHexString",
              message |-> "Entropy must be a valid hex string",
              position |-> Some(FirstNonHex(hex_str) - 1),
              hint |-> "Use only characters 0-9, a-f, A-F"])
    ELSE Ok

----------------------------------------------------------------------------
(* The hex crate: decode and encode.  decode reads the string's bytes, two  *)
(* per output byte, in either case; encode writes lower case.               *)

HexValues ==
    ("0" :> 0) @@ ("1" :> 1) @@ ("2" :> 2) @@ ("3" :> 3) @@ ("4" :> 4) @@
    ("5" :> 5) @@ ("6" :> 6) @@ ("7" :> 7) @@ ("8" :> 8) @@ ("9" :> 9) @@
    ("a" :> 10) @@ ("b" :> 11) @@ ("c" :> 12) @@ ("d" :> 13) @@
    ("e" :> 14) @@ ("f" :> 15) @@ ("A" :> 10) @@ ("B" :> 11) @@
    ("C" :> 12) @@ ("D" :> 13) @@ ("E" :> 14) @@ ("F" :> 15)

HexVal(c) == HexValues[c]

hex_decode(s) ==
    IF ByteLen(s) % 2 # 0
    THEN [ok |-> FALSE, err |-> [kind |-> "HexDecodeError", what |-> "OddLength"]]
    ELSE IF FirstNonHex(s) # 0
    THEN [ok |-> FALSE, err |-> [kind |-> "HexDecodeError", what |-> "InvalidHexCharacter"]]
    ELSE [ok |-> TRUE,
          bytes |-> AsSeq([i \in 1..(Len(s) \div 2) |->
                             16 * HexVal(s[2 * i - 1]) + HexVal(s[2 * i])])]

hex_encode(bytes) ==
    AsSeq([k \in 1..(2 * Len(bytes)) |->
             IF k % 2 = 1 THEN HexLower[(bytes[(k + 1) \div 2] \div 16) + 1]
             ELSE HexLower[(bytes[k \div 2] % 16) + 1]])

----------------------------------------------------------------------------
(* src/src/cli.rs: LanguageOption and its conversion to bip39::Language *)

LanguageOption == {"English", "Japanese", "Korean", "Spanish", "ChineseSimplified",
                   "ChineseTraditional", "French", "Italian", "Czech", "Portuguese"}

LanguageFrom(lang) ==
    CASE lang = "ChineseSimplified" -> "SimplifiedChinese"
      [] lang = "ChineseTraditional" -> "TraditionalChinese"
      [] OTHER -> lang

----------------------------------------------------------------------------
(* The word lists of the bip39 crate: 2048 distinct words per language, in  *)
(* a fixed order.  Stand-in lists: the English list starts with the first   *)
(* sixteen words of the official list; every other word is four characters, *)
(* a character that tells the language and three consonants that spell the  *)
(* index in base 16.  Every word is its own lower-case form, as in the      *)
(* official lists.                                                          *)

WordListSize == 2048

EnglishHead ==
    << <<"a","b","a","n","d","o","n">>, <<"a","b","i","l","i","t","y">>,
       <<"a","b","l","e">>, <<"a","b","o","u","t">>, <<"a","b","o","v","e">>,
       <<"a","b","s","e","n","t">>, <<"a","b","s","o","r","b">>,
       <<"a","b","s","t","r","a","c","t">>, <<"a","b","s","u","r","d">>,
       <<"a","b","u","s","e">>, <<"a","c","c","e","s","s">>,
       <<"a","c","c","i","d","e","n","t">>, <<"a","c","c","o","u","n","t">>,
       <<"a","c","c","u","s","e">>, <<"a","c","h","i","e","v","e">>,
       <<"a","c","i","d">> >>

Consonants == <<"b","c","d","f","g","h","j","k","l","m","n","p","r","s","t","v">>

LangChar(language) ==
    CASE language = "English" -> "e"
      [] language = "Japanese" -> "U+3042"
      [] language = "Korean" -> "k"
      [] language = "Spanish" -> "s"
      [] language = "SimplifiedChinese" -> "x"
      [] language = "TraditionalChinese" -> "t"
      [] language = "French" -> "f"
      [] language = "Italian" -> "i"
      [] language = "Czech" -> "c"
      [] language = "Portuguese" -> "p"

\* Language::word_list()[idx], idx in 0..2047
WordAt(language, idx) ==
    IF language = "English" /\ idx < Len(EnglishHead)
    THEN EnglishHead[idx + 1]
    ELSE << LangChar(language), Consonants[(idx \div 256) + 1],
            Consonants[((idx \div 16) % 16) + 1], Consonants[(idx % 16) + 1] >>

ConsonantIndex ==
    ("b" :> 1) @@ ("c" :> 2) @@ ("d" :> 3) @@ ("f" :> 4) @@ ("g" :> 5) @@
    ("h" :> 6) @@ ("j" :> 7) @@ ("k" :> 8) @@ ("l" :> 9) @@ ("m" :> 10) @@
    ("n" :> 11) @@ ("p" :> 12) @@ ("r" :> 13) @@ ("s" :> 14) @@
    ("t" :> 15) @@ ("v" :> 16)

ConsonantPos(c) == ConsonantIndex[c]

NotInList == -1

\* Language::find_word: the index of the list word equal to word, character
\* for character; NotInList if there is none.
find_word(language, word) ==
    IF language = "English" /\ \E i \in 1..Len(EnglishHead) : EnglishHead[i] = word
    THEN (CHOOSE i \in 1..Len(EnglishHead) : EnglishHead[i] = word) - 1
    ELSE IF /\ Len(word) = 4
            /\ word[1] = LangChar(language)
            /\ word[2] \in DOMAIN ConsonantIndex /\ ConsonantIndex[word[2]] <= 8
            /\ word[3] \in DOMAIN ConsonantIndex
            /\ word[4] \in DOMAIN ConsonantIndex
    THEN LET idx == 256 * (ConsonantPos(word[2]) - 1) + 16 * (ConsonantPos(word[3]) - 1)
                    + (ConsonantPos(word[4]) - 1)
         IN IF language = "English" /\ idx < Len(EnglishHead) THEN NotInList ELSE idx
    ELSE NotInList

\* word_list.contains(&w)
WordListContains(language, word) == find_word(language, word) # NotInList

----------------------------------------------------------------------------
(* SHA-256 of the bitcoin_hashes crate.  The codec reads only the first     *)
(* byte of the digest (at most 8 checksum bits).  Stand-in: a byte that     *)
(* depends on every byte of the input and on its position.                  *)

RECURSIVE WeightedSum(_, _)
WeightedSum(bytes, i) ==
    IF i > Len(bytes) THEN 0
    ELSE ((2 * i + 1) * bytes[i] + WeightedSum(bytes, i + 1)) % 256

Sha256FirstByte(bytes) == (55 + 7 * Len(bytes) + WeightedSum(bytes, 1)) % 256

----------------------------------------------------------------------------
(* The codec of the bip39 crate: Mnemonic::from_entropy_in,                 *)
(* Mnemonic::parse_in_normalized, Mnemonic::to_entropy and Display.         *)
(* A Mnemonic is [lang, words]: the language and the word indices.          *)

Pow2 == <<1, 2, 4, 8, 16, 32, 64, 128, 256, 512, 1024>>

\* Bit k (0-based, most significant first) of a byte string.
ByteBit(bytes, k) == (bytes[(k \div 8) + 1] \div Pow2[8 - (k % 8)]) % 2

\* Bit k of the entropy followed by the leading bits of its digest.
PackedBit(entropy, check, k) ==
    IF k < 8 * Len(entropy) THEN ByteBit(entropy, k)
    ELSE (check \div Pow2[8 - ((k - 8 * Len(entropy)) % 8)]) % 2

RECURSIVE IndexFromBits(_, _, _, _)
IndexFromBits(entropy, check, i, j) ==
    IF j > 10 THEN 0
    ELSE PackedBit(entropy, check, 11 * i + j) * Pow2[11 - j]
         + IndexFromBits(entropy, check, i, j + 1)

from_entropy_in(language, entropy) ==
    LET nb_bytes == Len(entropy)
        nb_bits == 8 * nb_bytes
    IN IF nb_bits % 32 # 0 \/ nb_bits < 128 \/ nb_bits > 256
       THEN [ok |-> FALSE, err |-> [kind |-> "BadEntropyBitCount", n |-> nb_bits]]
       ELSE LET check == Sha256FirstByte(entropy)
                nb_words == (nb_bytes * 3) \div 4
            IN [ok |-> TRUE,
                mnemonic |-> [lang |-> language,
                              words |-> AsSeq([i \in 1..nb_words |->
                                            IndexFromBits(entropy, check, i - 1, 0)])]]

\* Bit k (0-based) of the concatenation of the 11-bit word indices.
WordBit(words, k) == (words[(k \div 11) + 1] \div Pow2[11 - (k % 11)]) % 2

RECURSIVE ByteFromWords(_, _, _)
ByteFromWords(words, i, j) ==
    IF j > 7 THEN 0
    ELSE WordBit(words, 8 * i + j) * Pow2[8 - j] + ByteFromWords(words, i, j + 1)

\* Mnemonic::to_entropy: the first nb_words / 3 * 4 bytes of the packed bits
to_entropy(mnemonic) ==
    AsSeq([i \in 1..((Len(mnemonic.words) \div 3) * 4) |->
             ByteFromWords(mnemonic.words, i - 1, 0)])

\* The words of s from position i on: the first character that is no
\* whitespace starts a word, which ends before the next whitespace.
RECURSIVE SplitAt(_, _)
SplitAt(s, i) ==
    IF \A j \in i..Len(s) : IsWhitespace(s[j]) THEN <<>>
    ELSE LET a == CHOOSE j \in i..Len(s) :
                      ~IsWhitespace(s[j]) /\ \A k \in i..(j - 1) : IsWhitespace(s[k])
             b == CHOOSE j \in a..Len(s) :
                      /\ \A k \in a..j : ~IsWhitespace(s[k])
                      /\ (j = Len(s) \/ IsWhitespace(s[j + 1]))
         IN <<SubSeq(s, a, b)>> \o SplitAt(s, b + 1)

\* str::split_whitespace: the maximal runs of characters that are no whitespace
split_whitespace(s) == SplitAt(s, 1)

is_invalid_word_count(word_count) ==
    word_count < 12 \/ word_count % 3 # 0 \/ word_count > 24

\* The 1-based position of the first word find_word does not find, 0 if none.
RECURSIVE FirstUnknownFrom(_, _, _)
FirstUnknownFrom(language, words, i) ==
    IF i > Len(words) THEN 0
    ELSE IF find_word(language, words[i]) = NotInList THEN i
    ELSE FirstUnknownFrom(language, words, i + 1)

\* parse_in_normalized from the point where the entropy has been rebuilt:
\* the checksum bits of the words against the digest of the entropy
ParseVerify(m, entropy, check) ==
    IF \E i \in 0..((Len(entropy) \div 4) - 1) :
          WordBit(m.words, 8 * Len(entropy) + i) # (check \div Pow2[8 - i]) % 2
    THEN [ok |-> FALSE, err |-> [kind |-> "InvalidChecksum"]]
    ELSE [ok |-> TRUE, mnemonic |-> m]

ParseChecksum(m, entropy) == ParseVerify(m, entropy, Sha256FirstByte(entropy))

\* parse_in_normalized from the point where the words have been looked up
ParseLookup(language, strs, miss) ==
    IF miss # 0
    THEN [ok |-> FALSE, err |-> [kind |-> "UnknownWord", n |-> miss - 1]]
    ELSE ParseChecksum(
             [lang |-> language,
              words |-> AsSeq([i \in 1..Len(strs) |-> find_word(language, strs[i])])],
             to_entropy([words |-> AsSeq([i \in 1..Len(strs) |->
                                             find_word(language, strs[i])])]))

\* parse_in_normalized from the point where the string has been split
ParseWords(language, strs) ==
    IF is_invalid_word_count(Len(strs))
    THEN [ok |-> FALSE, err |-> [kind |-> "BadWordCount", n |-> Len(strs)]]
    ELSE ParseLookup(language, strs, FirstUnknownFrom(language, strs, 1))

parse_in_normalized(language, s) == ParseWords(language, split_whitespace(s))

\* Display for Mnemonic: the words, one space between two
RECURSIVE JoinFrom(_, _, _)
JoinFrom(language, words, i) ==
    IF i > Len(words) THEN <<>>
    ELSE (IF i > 1 THEN <<" ">> ELSE <<>>) \o WordAt(language, words[i])
         \o JoinFrom(language, words, i + 1)

MnemonicDisplay(mnemonic) == JoinFrom(mnemonic.lang, mnemonic.words, 1)

----------------------------------------------------------------------------
(* src/src/error.rs: the conversions into CliError *)

FromBip39Error(error) == [kind |-> "MnemonicError", inner |-> error]

FromHexError(error) == [kind |-> "HexDecodeError", inner |-> error]

FromIoError(error) ==
    [kind |-> "InvalidHexString", message |-> "IO error", position |-> None,
     hint |-> "Check terminal permissions and capabilities"]

----------------------------------------------------------------------------
(* Printed lines.  A header line is a fixed text, with the values format!   *)
(* puts in it; a data line is the raw datum a command is run for.           *)

Header(text, args) == [kind |-> "header", text |-> text, args |-> args]
Blank == [kind |-> "header", text |-> "", args |-> <<>>]
Rule == [kind |-> "header", text |-> "(rule)", args |-> <<>>]
Data(what, chars) == [kind |-> "data", text |-> what, args |-> chars]

\* What a handler leaves behind: the lines printed, the value returned
\* (or the exit code, when it ends the process), and for each secret
\* buffer (the entropy bytes, the seed, the passphrase read at the prompt,
\* the mnemonic read at the prompt) whether the handler never created it
\* ("none"), zeroized it ("zeroized") or ended with its content in
\* memory ("live").
Outcome(out, res, m) == [out |-> out, res |-> res, mem |-> m]

\* process::exit(code): the handler does not return
Exit(code) == [tag |-> "Exit", code |-> code]

NoMem == [entropy |-> "none", seed |-> "none", secure_pass |-> "none", mnemonic |-> "none"]

----------------------------------------------------------------------------
(* src/src/security.rs: validate_mnemonic_word_count *)

valid_counts == <<12, 15, 18, 21, 24>>

Abs(x) == IF x < 0 THEN -x ELSE x

\* Iterator::min_by_key: the first of the elements with the least key
ClosestCount(word_count) ==
    valid_counts[CHOOSE i \in 1..Len(valid_counts) :
        /\ \A j \in 1..Len(valid_counts) :
              Abs(valid_counts[i] - word_count) <= Abs(valid_counts[j] - word_count)
        /\ \A j \in 1..(i - 1) :
              Abs(valid_counts[j] - word_count) > Abs(valid_counts[i] - word_count)]

\* validate_mnemonic_word_count with split(' ') for split_whitespace
validate_mnemonic_word_count_by_spaces(mnemonic) ==
    LET word_count == 1 + Cardinality({i \in 1..Len(mnemonic) : mnemonic[i] = " "})
    IN IF word_count \notin Range(valid_counts)
       THEN Err([kind |-> "InvalidWordCount",
                 actual |-> word_count,
                 expected |-> valid_counts,
                 hint |-> ClosestCount(word_count)])
       ELSE Ok

validate_mnemonic_word_count(mnemonic) ==
    LET word_count == Len(split_whitespace(mnemonic))
    IN IF word_count \notin Range(valid_counts)
       THEN Err([kind |-> "InvalidWordCount",
                 actual |-> word_count,
                 expected |-> valid_counts,
                 hint |-> ClosestCount(word_count)])
       ELSE Ok

----------------------------------------------------------------------------
(* src/src/security.rs: edit_distance and find_invalid_words *)

Min(a, b) == IF a < b THEN a ELSE b

\* The row without the substitution: a mismatch costs a deletion or an
\* insertion
RECURSIVE EditRowNoSubstitution(_, _, _, _, _)
EditRowNoSubstitution(prev, c, s2, j, row) ==
    IF j > Len(s2) THEN row
    ELSE EditRowNoSubstitution(prev, c, s2, j + 1,
                 Append(row,
                        IF c = s2[j] THEN prev[j]
                        ELSE 1 + Min(prev[j + 1], row[j])))

\* Row i of the table dp, given row i - 1 (prev) and the character c of s1
\* the row is for; row holds dp[i][0..j-1].
RECURSIVE EditRow(_, _, _, _, _)
EditRow(prev, c, s2, j, row) ==
    IF j > Len(s2) THEN row
    ELSE EditRow(prev, c, s2, j + 1,
                 Append(row,
                        IF c = s2[j] THEN prev[j]
                        ELSE 1 + Min(Min(prev[j + 1], row[j]), prev[j])))

\* The last row of dp, from row i - 1
RECURSIVE EditRows(_, _, _, _)
EditRows(s1, s2, i, prev) ==
    IF i > Len(s1) THEN prev
    ELSE With(EditRow(prev, s1[i], s2, 1, <<i>>),
              LAMBDA row : EditRows(s1, s2, i + 1, row))

\* The bytes of a string in UTF-8: <<c, n>> is byte n of the character c
RECURSIVE Utf8(_)
Utf8(s) ==
    IF s = <<>> THEN <<>>
    ELSE AsSeq([n \in 1..CharLen(s[1]) |-> <<s[1], n>>]) \o Utf8(Tail(s))

\* The distance over the bytes of the strings
edit_distance_of_bytes(s1, s2) ==
    EditRows(Utf8(s1), Utf8(s2), 1,
             AsSeq([j \in 1..(Len(Utf8(s2)) + 1) |-> j - 1]))[Len(Utf8(s2)) + 1]

edit_distance(s1, s2) ==
    EditRows(s1, s2, 1, AsSeq([j \in 1..(Len(s2) + 1) |-> j - 1]))[Len(s2) + 1]

\* The least three (or fewer) elements of a set of numbers, in order
Kth(S, k) == CHOOSE x \in S : Cardinality({y \in S : y < x}) = k - 1

\* The greatest three instead of the least three
LastThree(S) ==
    AsSeq([k \in 1..Min(3, Cardinality(S)) |-> Kth(S, Cardinality(S) - Min(3, Cardinality(S)) + k)])

FirstThree(S) == AsSeq([k \in 1..Min(3, Cardinality(S)) |-> Kth(S, k)])

\* The filter with 3 for the threshold
HitsWithinThree(language, word_lower, lo, hi) ==
    {i \in lo..hi : edit_distance(word_lower, WordAt(language, i)) <= 3}

\* The indices in lo..hi of the list words within distance 2 of word_lower
Hits(language, word_lower, lo, hi) ==
    {i \in lo..hi : edit_distance(word_lower, WordAt(language, i)) <= 2}

\* word_list.iter().filter(|w| edit_distance(word_lower, w) <= 2).take(3):
\* the indices of the first three words that pass the filter, in list
\* order.  The iterator stops at the third; so does the scan, which reads
\* the list in three stretches (what follows three hits cannot be among the
\* first three).
SuggestFrom(language, word_lower) ==
    With(Hits(language, word_lower, 0, 63),
         LAMBDA h1 :
            IF Cardinality(h1) >= 3 THEN FirstThree(h1)
            ELSE With(h1 \cup Hits(language, word_lower, 64, 511),
                      LAMBDA h2 :
                         IF Cardinality(h2) >= 3 THEN FirstThree(h2)
                         ELSE FirstThree(h2 \cup Hits(language, word_lower, 512,
                                                      WordListSize - 1))))

Suggestions(language, word_lower) ==
    With(SuggestFrom(language, word_lower),
         LAMBDA found : AsSeq([k \in 1..Len(found) |-> WordAt(language, found[k])]))

\* The entry with the index of enumerate() for the position
InvalidEntryZeroBased(language, index, word) ==
    [position |-> index, word |-> word,
     suggestions |-> Suggestions(language, ToLowercase(word))]

\* The entry of find_invalid_words for the word at index (0-based)
InvalidEntry(language, index, word) ==
    [position |-> index + 1, word |-> word,
     suggestions |-> Suggestions(language, ToLowercase(word))]

\* find_invalid_words reporting the first word of a phrase that has a word
\* outside the list
InvalidAmongFirstWord(words, language) ==
    IF \A i \in 1..Len(words) : WordListContains(language, ToLowercase(words[i]))
    THEN <<>>
    ELSE << InvalidEntry(language, 0, words[1]) >>

\* find_invalid_words looking the words up as they are written
InvalidAmongAsWritten(words, language) ==
    LET bad == {i \in 1..Len(words) : ~WordListContains(language, words[i])}
    IN AsSeq([k \in 1..Cardinality(bad) |->
                 InvalidEntry(language, Kth(bad, k) - 1, words[Kth(bad, k)])])

\* find_invalid_words from the point where the string has been split
InvalidAmong(words, language) ==
    LET bad == {i \in 1..Len(words) : ~WordListContains(language, ToLowercase(words[i]))}
    IN AsSeq([k \in 1..Cardinality(bad) |->
                 InvalidEntry(language, Kth(bad, k) - 1, words[Kth(bad, k)])])

find_invalid_words(mnemonic, language) == InvalidAmong(split_whitespace(mnemonic), language)

----------------------------------------------------------------------------
(* src/src/commands/entropy.rs *)

\* The match with a slip in one arm
ByteLenToWordCountSlip(n) ==
    CASE n = 16 -> 12
      [] n = 20 -> 15
      [] n = 24 -> 18
      [] n = 28 -> 24
      [] n = 32 -> 24
      [] OTHER -> 0

\* The match without the arm of 28 bytes
ByteLenToWordCountFourArms(n) ==
    CASE n = 16 -> 12
      [] n = 20 -> 15
      [] n = 24 -> 18
      [] n = 32 -> 24
      [] OTHER -> 0

\* The match of handle_from_entropy on the number of entropy bytes;
\* 0 stands for the fallback arm.
ByteLenToWordCount(n) ==
    CASE n = 16 -> 12
      [] n = 20 -> 15
      [] n = 24 -> 18
      [] n = 28 -> 21
      [] n = 32 -> 24
      [] OTHER -> 0

\* handle_from_entropy from the point where the mnemonic has been built
FromEntropyPrint(entropy_bytes, mnemonic, word_count, language, quiet) ==
    IF word_count = 0
    THEN Outcome(<<>>,
                 Err([kind |-> "InvalidEntropyLength",
                      actual |-> Len(entropy_bytes) * 2,
                      expected |-> <<32, 40, 48, 56, 64>>,
                      hint |-> "Check the entropy length"]),
                 [NoMem EXCEPT !.entropy = "live"])
    ELSE Outcome(
             (IF ~quiet
              THEN << Header("Mnemonic from Entropy", <<>>), Rule,
                      Header("Input entropy: {} bits ({} bytes)",
                             <<Len(entropy_bytes) * 8, Len(entropy_bytes)>>),
                      Header("Output words: {}", <<word_count>>),
                      Header("Language: {}", <<language>>),
                      Blank >>
              ELSE <<>>)
             \o << Data("mnemonic", MnemonicDisplay(mnemonic)) >>,
             Ok,
             [NoMem EXCEPT !.entropy = "zeroized"])

\* handle_from_entropy from the point where the hex string has been decoded
FromEntropyBuild(entropy_bytes, made, language, quiet) ==
    IF ~made.ok
    THEN Outcome(<<>>, Err(FromBip39Error(made.err)), [NoMem EXCEPT !.entropy = "live"])
    ELSE FromEntropyPrint(entropy_bytes, made.mnemonic,
                          ByteLenToWordCount(Len(entropy_bytes)), language, quiet)

\* handle_from_entropy from the point where the hex string has been checked
FromEntropyDecode(valid, decoded, language, quiet) ==
    IF valid.tag = "Err" THEN Outcome(<<>>, valid, NoMem)
    ELSE IF ~decoded.ok THEN Outcome(<<>>, Err(FromHexError(decoded.err)), NoMem)
    ELSE FromEntropyBuild(decoded.bytes,
                          from_entropy_in(LanguageFrom(language), decoded.bytes),
                          language, quiet)

\* handle_from_entropy writing every mnemonic in English
handle_from_entropy_english_only(entropy, language, quiet) ==
    FromEntropyDecode(validate_entropy_hex(entropy), hex_decode(entropy), "English", quiet)

handle_from_entropy(entropy, language, quiet) ==
    FromEntropyDecode(validate_entropy_hex(entropy), hex_decode(entropy), language, quiet)

\* handle_entropy from the point where the mnemonic has been parsed
EntropyPrint(mnemonic, entropy, language, quiet) ==
    Outcome(
        (IF ~quiet
         THEN << Header("Entropy Extraction", <<>>), Rule,
                 Header("Input words: {}", <<Len(split_whitespace(mnemonic))>>),
                 Header("Output entropy: {} bits ({} bytes)",
                        <<Len(entropy) * 8, Len(entropy)>>),
                 Header("Language: {}", <<language>>),
                 Blank >>
         ELSE <<>>)
        \o << Data("entropy", hex_encode(entropy)) >>,
        Ok,
        [NoMem EXCEPT !.entropy = "live"])

\* handle_entropy letting a phrase with a wrong checksum through
EntropyParseUnchecked(mnemonic, counted, parsed, language, quiet) ==
    IF counted.tag = "Err" THEN Outcome(<<>>, counted, NoMem)
    ELSE IF ~parsed.ok /\ parsed.err.kind # "InvalidChecksum"
    THEN Outcome(<<>>, Err(FromBip39Error(parsed.err)), NoMem)
    ELSE EntropyPrint(
             mnemonic,
             to_entropy([words |-> AsSeq([i \in 1..Len(split_whitespace(mnemonic)) |->
                                            find_word(LanguageFrom(language),
                                                      split_whitespace(mnemonic)[i])])]),
             language, quiet)

\* handle_entropy from the point where the words have been counted
EntropyParse(mnemonic, counted, parsed, language, quiet) ==
    IF counted.tag = "Err" THEN Outcome(<<>>, counted, NoMem)
    ELSE IF ~parsed.ok THEN Outcome(<<>>, Err(FromBip39Error(parsed.err)), NoMem)
    ELSE EntropyPrint(mnemonic, to_entropy(parsed.mnemonic), language, quiet)

\* handle_entropy reading every phrase as English
handle_entropy_english_only(mnemonic, language, quiet) ==
    EntropyParse(mnemonic, validate_mnemonic_word_count(mnemonic),
                 parse_in_normalized("English", mnemonic), language, quiet)

handle_entropy(mnemonic, language, quiet) ==
    EntropyParse(mnemonic, validate_mnemonic_word_count(mnemonic),
                 parse_in_normalized(LanguageFrom(language), mnemonic), language, quiet)

----------------------------------------------------------------------------
(* src/src/cli.rs: WordCount *)

WordCount == {"Twelve", "Fifteen", "Eighteen", "TwentyOne", "TwentyFour"}

to_entropy_bits(self) ==
    CASE self = "Twelve" -> 128
      [] self = "Fifteen" -> 160
      [] self = "Eighteen" -> 192
      [] self = "TwentyOne" -> 224
      [] self = "TwentyFour" -> 256

to_entropy_bytes(self) == to_entropy_bits(self) \div 8

to_word_count(self) ==
    CASE self = "Twelve" -> 12
      [] self = "Fifteen" -> 15
      [] self = "Eighteen" -> 18
      [] self = "TwentyOne" -> 21
      [] self = "TwentyFour" -> 24

----------------------------------------------------------------------------
(* src/src/security.rs: secure_input and secure_mnemonic_input.             *)
(* The terminal of a run is tty = [writes, lines]: writes is the number of  *)
(* writes to the terminal that succeed before one fails, lines the results  *)
(* of the reads of a hidden line, in order: Typed(text), or ReadFails.      *)

\* The result of a read: the line typed, or an error
Typed(text) == [ok |-> TRUE, text |-> text]
ReadFails == [ok |-> FALSE, io |-> "read"]
WriteFails == [ok |-> FALSE, io |-> "write"]

\* The terminal after n more writes and k more reads
TtyAfter(tty, n, k) ==
    [writes |-> tty.writes - n, lines |-> SubSeq(tty.lines, k + 1, Len(tty.lines))]

\* [ok, text] or [ok, err], with the terminal as it is left
secure_input(prompt, tty) ==
    IF tty.writes < 2
    THEN [ok |-> FALSE, err |-> WriteFails, tty |-> TtyAfter(tty, tty.writes, 0)]
    ELSE IF tty.lines = <<>> \/ ~tty.lines[1].ok
    THEN [ok |-> FALSE, err |-> ReadFails, tty |-> TtyAfter(tty, 2, Min(1, Len(tty.lines)))]
    ELSE [ok |-> TRUE, text |-> tty.lines[1].text, tty |-> TtyAfter(tty, 2, 1)]

\* secure_mnemonic_input from the point where the line has been read:
\* [ok, text] or [ok, err], with the state of the buffer that holds the text
SecureMnemonicCheck(read, counted, invalid_words) ==
    IF ~read.ok
    THEN [ok |-> FALSE, buffer |-> "none", tty |-> read.tty,
          err |-> [kind |-> "InvalidHexString",
                   message |-> "Failed to read secure input: {e}",
                   position |-> None,
                   hint |-> "Ensure terminal supports secure input"]]
    ELSE IF counted.tag = "Err"
    THEN [ok |-> FALSE, buffer |-> "live", tty |-> read.tty, err |-> counted.err]
    ELSE IF invalid_words # <<>>
    THEN [ok |-> FALSE, buffer |-> "zeroized", tty |-> read.tty,
          err |-> [kind |-> "InvalidWord",
                   word |-> invalid_words[1].word,
                   position |-> invalid_words[1].position,
                   suggestions |-> invalid_words[1].suggestions]]
    ELSE [ok |-> TRUE, buffer |-> "live", tty |-> read.tty, text |-> read.text]

SecureMnemonicRead(read, language) ==
    SecureMnemonicCheck(
        read,
        IF read.ok THEN validate_mnemonic_word_count(read.text) ELSE Ok,
        IF read.ok /\ validate_mnemonic_word_count(read.text) = Ok
        THEN find_invalid_words(read.text, language) ELSE <<>>)

secure_mnemonic_input(prompt, language, tty) ==
    IF tty.writes < 5
    THEN [ok |-> FALSE, buffer |-> "none", tty |-> TtyAfter(tty, tty.writes, 0),
          err |-> FromIoError(WriteFails)]
    ELSE SecureMnemonicRead(secure_input(prompt, TtyAfter(tty, 5, 0)), language)

----------------------------------------------------------------------------
(* src/src/commands/validate.rs *)

\* The state of the buffers when a handler ends holding the phrase: the
\* phrase typed at the prompt is a String that is dropped as it is.
PhraseMem(secure) == [NoMem EXCEPT !.mnemonic = IF secure THEN "live" ELSE "none"]

\* handle_validate, the arm of a phrase that parses
ValidatePrintValid(final_mnemonic, parsed_mnemonic, language, secure, quiet) ==
    IF quiet
    THEN Outcome(<< Data("verdict", <<"valid">>) >>, Ok, PhraseMem(secure))
    ELSE Outcome(<< Header("Mnemonic Validation", <<>>), Rule,
                    Header("Status: Valid BIP39 mnemonic", <<>>),
                    Header("Words: {}", <<Len(split_whitespace(final_mnemonic))>>),
                    Header("Entropy: {} bits", <<Len(to_entropy(parsed_mnemonic)) * 8>>),
                    Header("Language: {}", <<language>>) >>,
                 Ok,
                 [PhraseMem(secure) EXCEPT !.entropy = "live"])

\* The arm that refuses a phrase only for its words: what find_invalid_words
\* lets through is reported valid
ValidateRejectWordsOnly(final_mnemonic, e, invalid_words, language, secure, quiet) ==
    IF invalid_words # <<>>
    THEN Outcome(<<>>,
                 Err([kind |-> "InvalidWord",
                      word |-> invalid_words[1].word,
                      position |-> invalid_words[1].position,
                      suggestions |-> invalid_words[1].suggestions]),
                 PhraseMem(secure))
    ELSE Outcome(<< Data("verdict", <<"valid">>) >>, Ok, PhraseMem(secure))

\* handle_validate, the arm of a phrase that does not parse
ValidateReject(final_mnemonic, e, invalid_words, language, secure, quiet) ==
    IF invalid_words # <<>>
    THEN Outcome(<<>>,
                 Err([kind |-> "InvalidWord",
                      word |-> invalid_words[1].word,
                      position |-> invalid_words[1].position,
                      suggestions |-> invalid_words[1].suggestions]),
                 PhraseMem(secure))
    ELSE IF quiet
    THEN Outcome(<< Data("verdict", <<"invalid">>) >>, Exit(1), PhraseMem(secure))
    ELSE Outcome(<< Header("Mnemonic Validation", <<>>), Rule,
                    Header("Status: Invalid BIP39 mnemonic", <<>>),
                    Header("Words: {}", <<Len(split_whitespace(final_mnemonic))>>),
                    Header("Error: {}", <<e>>),
                    Header("Language: {}", <<language>>) >>,
                 Exit(1),
                 PhraseMem(secure))

\* handle_validate looking at the number of words last
ValidateParseCountLast(final_mnemonic, counted, parsed, language, secure, quiet) ==
    IF parsed.ok
    THEN ValidatePrintValid(final_mnemonic, parsed.mnemonic, language, secure, quiet)
    ELSE IF find_invalid_words(final_mnemonic, LanguageFrom(language)) # <<>>
            \/ counted.tag # "Err"
    THEN ValidateReject(final_mnemonic, parsed.err,
                        find_invalid_words(final_mnemonic, LanguageFrom(language)),
                        language, secure, quiet)
    ELSE Outcome(<<>>, counted, PhraseMem(secure))

\* handle_validate from the point where the words have been counted
ValidateParse(final_mnemonic, counted, parsed, language, secure, quiet) ==
    IF counted.tag = "Err" THEN Outcome(<<>>, counted, PhraseMem(secure))
    ELSE IF parsed.ok
    THEN ValidatePrintValid(final_mnemonic, parsed.mnemonic, language, secure, quiet)
    ELSE ValidateReject(final_mnemonic, parsed.err,
                        find_invalid_words(final_mnemonic, LanguageFrom(language)),
                        language, secure, quiet)

\* handle_validate from the point where final_mnemonic is known
ValidateFinal(final_mnemonic, language, secure, quiet) ==
    ValidateParse(final_mnemonic, validate_mnemonic_word_count(final_mnemonic),
                  parse_in_normalized(LanguageFrom(language), final_mnemonic),
                  language, secure, quiet)

\* handle_validate from the point where the prompt has been answered
ValidateTyped(typed, language, quiet) ==
    IF ~typed.ok
    THEN Outcome(<<>>, Err(typed.err), [NoMem EXCEPT !.mnemonic = typed.buffer])
    ELSE ValidateFinal(typed.text, language, TRUE, quiet)

handle_validate(mnemonic, language, secure_input_flag, quiet, tty) ==
    IF secure_input_flag
    THEN ValidateTyped(secure_mnemonic_input("Enter mnemonic to validate:",
                                             LanguageFrom(language), tty),
                       language, quiet)
    ELSE ValidateFinal(mnemonic, language, FALSE, quiet)

----------------------------------------------------------------------------
(* src/src/security.rs: assess_passphrase_strength, is_common_pattern and   *)
(* estimate_passphrase_entropy.  The score is kept in units of 1/100000,    *)
(* the entropy in units of 1/1000000 bit (every product the code forms is   *)
(* exact in these units, but for the logarithms, which are rounded).        *)

Digits == <<"0","1","2","3","4","5","6","7","8","9">>

LowerSet == Range(LettersLower)
UpperSet == Range(LettersUpper)
DigitSet == Range(Digits)

IsAsciiLowercase(c) == c \in LowerSet
IsAsciiUppercase(c) == c \in UpperSet
IsAsciiDigit(c) == c \in DigitSet

\* char::is_alphanumeric: the ASCII letters and digits, e acute and the kana
IsAlphanumeric(c) ==
    c \in LowerSet \cup UpperSet \cup DigitSet \cup {"U+00E9", "U+3042", "U+3044", "U+3046"}

AnyChar(s, P(_)) == \E i \in 1..Len(s) : P(s[i])

\* str::contains
Contains(s, pattern) ==
    \E i \in 1..(Len(s) - Len(pattern) + 1) : SubSeq(s, i, i + Len(pattern) - 1) = pattern

weak_patterns ==
    << <<"p","a","s","s","w","o","r","d">>, <<"1","2","3","4","5","6">>,
       <<"q","w","e","r","t","y">>, <<"a","b","c","1","2","3">>,
       <<"a","d","m","i","n">>, <<"u","s","e","r">>,
       <<"l","e","t","m","e","i","n">>, <<"w","e","l","c","o","m","e">>,
       <<"m","o","n","k","e","y">>, <<"d","r","a","g","o","n">>,
       <<"m","a","s","t","e","r">>, <<"s","h","a","d","o","w">>,
       <<"1","2","3","4","5","6","7","8">>, <<"f","o","o","t","b","a","l","l">>,
       <<"b","a","s","e","b","a","l","l">>, <<"s","u","p","e","r","m","a","n">>,
       <<"b","a","t","m","a","n">> >>

is_common_pattern(passphrase) ==
    LET lower == ToLowercase(passphrase)
    IN \/ \E k \in 1..Len(weak_patterns) : Contains(lower, weak_patterns[k])
       \/ Contains(lower, <<"a","b","c","d">>)
       \/ Contains(lower, <<"1","2","3","4">>)
       \/ Contains(lower, <<"q","w","e","r">>)

\* f64::log2 of the sizes a character set can have, in millionths
Log2Millionths ==
    (10 :> 3321928) @@ (26 :> 4700440) @@ (32 :> 5000000) @@ (36 :> 5169925) @@
    (42 :> 5392317) @@ (52 :> 5700440) @@ (58 :> 5857981) @@ (62 :> 5954196) @@
    (68 :> 6087463) @@ (84 :> 6392317) @@ (94 :> 6554589)

CharsetSize(passphrase) ==
    (IF AnyChar(passphrase, IsAsciiLowercase) THEN 26 ELSE 0)
    + (IF AnyChar(passphrase, IsAsciiUppercase) THEN 26 ELSE 0)
    + (IF AnyChar(passphrase, IsAsciiDigit) THEN 10 ELSE 0)
    + (IF AnyChar(passphrase, LAMBDA c : ~IsAlphanumeric(c)) THEN 32 ELSE 0)

estimate_passphrase_entropy(passphrase) ==
    IF CharsetSize(passphrase) = 0 THEN 0
    ELSE ByteLen(passphrase) * Log2Millionths[CharsetSize(passphrase)]

CharTypes(passphrase) ==
    (IF AnyChar(passphrase, IsAsciiLowercase) THEN 1 ELSE 0)
    + (IF AnyChar(passphrase, IsAsciiUppercase) THEN 1 ELSE 0)
    + (IF AnyChar(passphrase, IsAsciiDigit) THEN 1 ELSE 0)
    + (IF AnyChar(passphrase, LAMBDA c : ~IsAlphanumeric(c)) THEN 1 ELSE 0)

\* The score after the length check and the character diversity
ScoreOfShape(passphrase) ==
    (IF ByteLen(passphrase) < 8 THEN 0
     ELSE IF ByteLen(passphrase) < 12 THEN 20000
     ELSE IF ByteLen(passphrase) < 20 THEN 40000
     ELSE 60000)
    + CharTypes(passphrase) * 7500

\* The score after the common patterns check
ScoreOfPatterns(passphrase) ==
    IF is_common_pattern(passphrase)
    THEN ScoreOfShape(passphrase) \div 2
    ELSE ScoreOfShape(passphrase)

\* The score after the entropy estimation
ScoreOfEntropy(passphrase, entropy) ==
    IF entropy < 50000000 THEN (ScoreOfPatterns(passphrase) * 7) \div 10
    ELSE IF entropy > 80000000 THEN ScoreOfPatterns(passphrase) + 10000
    ELSE ScoreOfPatterns(passphrase)

StrengthOf(passphrase, score, entropy) ==
    [score |-> score,
     entropy |-> entropy,
     issues |->
        (IF ByteLen(passphrase) < 8 THEN <<"Passphrase is too short">> ELSE <<>>)
        \o (IF is_common_pattern(passphrase) THEN <<"Contains common patterns">> ELSE <<>>)
        \o (IF entropy < 50000000 THEN <<"Low entropy">> ELSE <<>>),
     recommendations |->
        (IF ByteLen(passphrase) >= 8 /\ ByteLen(passphrase) < 12
         THEN <<"Consider using a longer passphrase">> ELSE <<>>)
        \o (IF CharTypes(passphrase) < 3 THEN <<"Use a mix">> ELSE <<>>)
        \o (IF score < 30000 THEN <<"Consider using a much stronger passphrase">>
            ELSE IF score < 60000 THEN <<"Passphrase strength could be improved">>
            ELSE <<"Passphrase strength appears good">>)
        \o (IF passphrase = <<>> THEN <<"Empty passphrase">> ELSE <<>>)]

assess_passphrase_strength(passphrase) ==
    StrengthOf(passphrase,
               ScoreOfEntropy(passphrase, estimate_passphrase_entropy(passphrase)),
               estimate_passphrase_entropy(passphrase))

----------------------------------------------------------------------------
(* Mnemonic::to_seed of the bip39 crate: PBKDF2-HMAC-SHA512 of the phrase   *)
(* with the passphrase in the salt, 64 bytes.  Stand-in: 64 bytes that      *)
(* depend on the language, on every word and its place, and on every        *)
(* character of the passphrase and its place.                               *)

PassAlphabet ==
    LettersLower \o LettersUpper \o Digits
    \o <<" ", "!", "#", "-", "_", "U+00E9", "U+3000", "U+3042">>

CharCode == [c \in Range(PassAlphabet) |-> CHOOSE i \in 1..Len(PassAlphabet) : PassAlphabet[i] = c]

RECURSIVE PassMix(_, _)
PassMix(passphrase, i) ==
    IF i > Len(passphrase) THEN 0
    ELSE ((3 * i + 2) * CharCode[passphrase[i]] + PassMix(passphrase, i + 1)) % 65536

RECURSIVE WordMix(_, _)
WordMix(words, i) ==
    IF i > Len(words) THEN 0
    ELSE ((2 * i + 1) * (words[i] + 1) + WordMix(words, i + 1)) % 65536

to_seed(mnemonic, passphrase) ==
    LET a == WordMix(mnemonic.words, 1) + CharCode[LangChar(mnemonic.lang)]
        b == PassMix(passphrase, 1)
    IN AsSeq([k \in 1..64 |-> (a * (k + 2) + b * (2 * k + 1) + 97 * k) % 256])

----------------------------------------------------------------------------
(* src/src/commands/seed.rs *)

\* The lines of the passphrase strength analysis; nothing in quiet mode
AnalysisLines(strength, quiet) ==
    IF quiet THEN <<>>
    ELSE << Header("Passphrase Strength Analysis", <<>>), Rule,
            Header("Score: {:.2}/1.0", <<(strength.score + 500) \div 1000>>),
            Header("Entropy: {:.1} bits", <<(strength.entropy + 50000) \div 100000>>) >>
         \o (IF strength.issues # <<>>
             THEN <<Header("Issues:", <<>>)>>
                  \o AsSeq([i \in 1..Len(strength.issues) |->
                              Header("  {issue}", <<strength.issues[i]>>)])
             ELSE <<>>)
         \o <<Header("Recommendations:", <<>>)>>
         \o AsSeq([i \in 1..Len(strength.recommendations) |->
                     Header("  {rec}", <<strength.recommendations[i]>>)])
         \o <<Blank>>

TooWeak ==
    [kind |-> "InvalidHexString", message |-> "Passphrase strength too low",
     position |-> None, hint |-> "Use a longer, more complex passphrase"]

\* The end of handle_seed without seed.zeroize()
SeedDeriveKeepsSeed(final_mnemonic, mnemonic_obj, final_passphrase, seed, quiet, printed, m) ==
    Outcome(printed \o << Data("seed", hex_encode(seed)) >>, Ok, [m EXCEPT !.seed = "live"])

\* handle_seed from the point where final_passphrase is known; printed is
\* what the analysis of the passphrase has printed, m the buffers so far
SeedDerive(final_mnemonic, mnemonic_obj, final_passphrase, seed, quiet, printed, m) ==
    Outcome(
        printed
        \o (IF ~quiet
            THEN << Header("Seed Generation", <<>>), Rule,
                    Header("Input words: {}", <<Len(split_whitespace(final_mnemonic))>>),
                    Header("Input entropy: {} bits", <<Len(to_entropy(mnemonic_obj)) * 8>>),
                    Header("Output: 512 bits (64 bytes)", <<>>),
                    Header(IF final_passphrase = <<>> THEN "Passphrase: None"
                           ELSE "Passphrase: Used", <<>>),
                    Blank >>
            ELSE <<>>)
        \o << Data("seed", hex_encode(seed)) >>,
        Ok,
        [m EXCEPT !.seed = "zeroized", !.entropy = IF quiet THEN "none" ELSE "live"])

\* Only the first half of the derived bytes is kept
SeedFromHalf(final_mnemonic, mnemonic_obj, final_passphrase, quiet, printed, m) ==
    SeedDerive(final_mnemonic, mnemonic_obj, final_passphrase,
               SubSeq(to_seed(mnemonic_obj, final_passphrase), 1, 32), quiet, printed, m)

SeedFrom(final_mnemonic, mnemonic_obj, final_passphrase, quiet, printed, m) ==
    SeedDerive(final_mnemonic, mnemonic_obj, final_passphrase,
               to_seed(mnemonic_obj, final_passphrase), quiet, printed, m)

\* The first arm: the passphrase is read at the prompt
SeedSecurePass(final_mnemonic, mnemonic_obj, read, analyze_passphrase, quiet, m) ==
    IF ~read.ok
    THEN Outcome(<<>>,
                 Err([kind |-> "InvalidHexString",
                      message |-> "Failed to read secure passphrase: {e}",
                      position |-> None,
                      hint |-> "Ensure terminal supports secure input"]),
                 m)
    ELSE IF (analyze_passphrase \/ ~quiet)
            /\ assess_passphrase_strength(read.text).score < 60000
    THEN Outcome(AnalysisLines(assess_passphrase_strength(read.text), quiet),
                 Err(TooWeak),
                 [m EXCEPT !.secure_pass = "zeroized"])
    ELSE SeedFrom(final_mnemonic, mnemonic_obj, read.text, quiet,
                  IF analyze_passphrase \/ ~quiet
                  THEN AnalysisLines(assess_passphrase_strength(read.text), quiet)
                  ELSE <<>>,
                  [m EXCEPT !.secure_pass = "live"])

\* The second arm: the passphrase of the command line is analyzed
SeedAnalyzed(final_mnemonic, mnemonic_obj, passphrase, strength, quiet, m) ==
    IF strength.score < 60000
    THEN Outcome(AnalysisLines(strength, quiet), Err(TooWeak), m)
    ELSE SeedFrom(final_mnemonic, mnemonic_obj, passphrase, quiet,
                  AnalysisLines(strength, quiet), m)

\* handle_seed from the point where the mnemonic has been parsed
SeedPassphrase(final_mnemonic, mnemonic_obj, passphrase, secure, analyze_passphrase, quiet, tty) ==
    IF secure /\ passphrase = <<>>
    THEN SeedSecurePass(final_mnemonic, mnemonic_obj,
                        secure_input("Enter passphrase for seed derivation:", tty),
                        analyze_passphrase, quiet, PhraseMem(secure))
    ELSE IF analyze_passphrase /\ passphrase # <<>>
    THEN SeedAnalyzed(final_mnemonic, mnemonic_obj, passphrase,
                      assess_passphrase_strength(passphrase), quiet, PhraseMem(secure))
    ELSE SeedFrom(final_mnemonic, mnemonic_obj, passphrase, quiet, <<>>, PhraseMem(secure))

\* handle_seed from the point where the words have been counted
SeedParse(final_mnemonic, counted, parsed, passphrase, secure, analyze_passphrase, quiet, tty) ==
    IF counted.tag = "Err" THEN Outcome(<<>>, counted, PhraseMem(secure))
    ELSE IF ~parsed.ok
    THEN Outcome(<<>>, Err(FromBip39Error(parsed.err)), PhraseMem(secure))
    ELSE SeedPassphrase(final_mnemonic, parsed.mnemonic, passphrase, secure,
                        analyze_passphrase, quiet, tty)

\* handle_seed from the point where final_mnemonic is known
SeedFinal(final_mnemonic, passphrase, secure, analyze_passphrase, language, quiet, tty) ==
    SeedParse(final_mnemonic, validate_mnemonic_word_count(final_mnemonic),
              parse_in_normalized(LanguageFrom(language), final_mnemonic),
              passphrase, secure, analyze_passphrase, quiet, tty)

\* handle_seed from the point where the prompt has been answered
SeedTyped(typed, passphrase, analyze_passphrase, language, quiet) ==
    IF ~typed.ok
    THEN Outcome(<<>>, Err(typed.err), [NoMem EXCEPT !.mnemonic = typed.buffer])
    ELSE SeedFinal(typed.text, passphrase, TRUE, analyze_passphrase, language, quiet,
                   typed.tty)

handle_seed(mnemonic, passphrase, secure_input_flag, analyze_passphrase, language, quiet, tty) ==
    IF secure_input_flag
    THEN SeedTyped(secure_mnemonic_input("Enter mnemonic:", LanguageFrom(language), tty),
                   passphrase, analyze_passphrase, language, quiet)
    ELSE SeedFinal(mnemonic, passphrase, FALSE, analyze_passphrase, language, quiet, tty)

----------------------------------------------------------------------------
(* src/src/security.rs: the analysis of the quality of entropy.  Scores are *)
(* in millionths (1000000 is 1.0); the data has at most 32 bytes.           *)

\* log2(k) for k in 1..32, in millionths
Log2OfCount ==
    << 0, 1000000, 1584963, 2000000, 2321928, 2584963, 2807355, 3000000,
       3169925, 3321928, 3459432, 3584963, 3700440, 3807355, 3906891, 4000000,
       4087463, 4169925, 4247928, 4321928, 4392317, 4459432, 4523562, 4584963,
       4643856, 4700440, 4754888, 4807355, 4857981, 4906891, 4954196, 5000000 >>

\* counts[b] after the loop over the data
CountOf(data, b) == Cardinality({i \in 1..Len(data) : data[i] = b})

\* has_repeating_pattern.  With 4 to 6 bytes and no 2-byte pattern,
\* data.len() - 7 underflows: the debug build panics at the subtraction, the
\* release build at the slice data[4..8].
has_repeating_pattern(data) ==
    IF Len(data) < 4 THEN [panic |-> FALSE, value |-> FALSE]
    ELSE IF \E i \in 0..(Len(data) - 4) :
               data[i + 1] = data[i + 3] /\ data[i + 2] = data[i + 4]
    THEN [panic |-> FALSE, value |-> TRUE]
    ELSE IF Len(data) < 7 THEN [panic |-> TRUE, value |-> FALSE]
    ELSE [panic |-> FALSE,
          value |-> \E i \in 0..(Len(data) - 8) :
                       SubSeq(data, i + 1, i + 4) = SubSeq(data, i + 5, i + 8)]

\* The sum of the squares of the counts: the pairs of places with equal bytes
SumOfSquares(data) ==
    Cardinality({p \in (1..Len(data)) \X (1..Len(data)) : data[p[1]] = data[p[2]]})

\* byte_frequency_test: chi_squared = 256 * S / n - n for S the sum of the
\* squares of the counts, max_chi_squared = 4 * n, and the score is
\* 1 - min(chi_squared / max_chi_squared, 1)
byte_frequency_test(data) ==
    With(256 * SumOfSquares(data) - Len(data) * Len(data),
         LAMBDA excess :
            IF excess >= 4 * Len(data) * Len(data) THEN 0
            ELSE 1000000 - (excess * 1000000) \div (4 * Len(data) * Len(data)))

\* data[i] == data[i - 1].wrapping_add(1), i a place from 2 on
StepsUp(data, i) == data[i] = (data[i - 1] + 1) % 256
StepsDown(data, i) == data[i] = (data[i - 1] + 255) % 256

\* has_sequential_pattern: three steps up in a row, or three steps down
has_sequential_pattern(data) ==
    /\ Len(data) >= 4
    /\ \E i \in 2..(Len(data) - 2) :
          \/ StepsUp(data, i) /\ StepsUp(data, i + 1) /\ StepsUp(data, i + 2)
          \/ StepsDown(data, i) /\ StepsDown(data, i + 1) /\ StepsDown(data, i + 2)

\* The sum over the places i.. of log2 of the count of the byte at the place
RECURSIVE SumLogCounts(_, _)
SumLogCounts(data, i) ==
    IF i > Len(data) THEN 0
    ELSE Log2OfCount[CountOf(data, data[i])] + SumLogCounts(data, i + 1)

\* calculate_shannon_entropy: - sum of p * log2(p) over the bytes that
\* occur, which is log2(n) - (sum of count * log2(count)) / n
calculate_shannon_entropy(data) ==
    IF data = <<>> THEN 0
    ELSE Log2OfCount[Len(data)] - SumLogCounts(data, 1) \div Len(data)

AllBytes(data, b) == \A i \in 1..Len(data) : data[i] = b

ScoreOfExtremes(entropy) ==
    IF AllBytes(entropy, 0) \/ AllBytes(entropy, 255) THEN 0 ELSE 1000000

ScoreOfRepeats(entropy) ==
    IF has_repeating_pattern(entropy).value
    THEN (ScoreOfExtremes(entropy) * 3) \div 10 ELSE ScoreOfExtremes(entropy)

ScoreOfFrequency(entropy) ==
    IF byte_frequency_test(entropy) < 700000
    THEN (ScoreOfRepeats(entropy) * byte_frequency_test(entropy)) \div 1000000
    ELSE ScoreOfRepeats(entropy)

ScoreOfSequences(entropy) ==
    IF has_sequential_pattern(entropy)
    THEN ScoreOfFrequency(entropy) \div 2 ELSE ScoreOfFrequency(entropy)

\* entropy_ratio
ShannonRatio(entropy) == calculate_shannon_entropy(entropy) \div 8

ScoreOfShannon(entropy) ==
    IF ShannonRatio(entropy) < 800000
    THEN (ScoreOfSequences(entropy) * ShannonRatio(entropy)) \div 1000000
    ELSE ScoreOfSequences(entropy)

QualityOf(entropy, score) ==
    [panic |-> FALSE,
     score |-> score,
     issues |->
        (IF AllBytes(entropy, 0) THEN <<"Entropy is all zeros">>
         ELSE IF AllBytes(entropy, 255) THEN <<"Entropy is all ones">> ELSE <<>>)
        \o (IF has_repeating_pattern(entropy).value
            THEN <<"Detected repeating patterns in entropy">> ELSE <<>>)
        \o (IF byte_frequency_test(entropy) < 700000
            THEN <<"Poor byte distribution detected">> ELSE <<>>)
        \o (IF has_sequential_pattern(entropy)
            THEN <<"Sequential patterns detected">> ELSE <<>>)
        \o (IF ShannonRatio(entropy) < 800000 THEN <<"Low Shannon entropy">> ELSE <<>>),
     recommendations |->
        IF score < 500000
        THEN <<"CRITICAL: Generate new entropy", "Consider using: /dev/urandom">>
        ELSE IF score < 800000
        THEN <<"Consider regenerating entropy", "Verify your entropy source">>
        ELSE <<"Entropy quality appears good">>]

analyze_entropy_quality(entropy) ==
    IF has_repeating_pattern(entropy).panic THEN [panic |-> TRUE]
    ELSE QualityOf(entropy, ScoreOfShannon(entropy))

----------------------------------------------------------------------------
(* src/src/commands/generate.rs.  opts is GenerateOptions; entropy is what  *)
(* OsRng.fill_bytes left in the buffer.                                     *)

\* The thread panics: the handler does not return
Panic == [tag |-> "Panic"]

\* The lines of the entropy quality analysis; nothing in quiet mode
QualityLines(quality, quiet) ==
    IF quiet THEN <<>>
    ELSE << Header("Entropy Quality Analysis", <<>>), Rule,
            Header("Score: {:.2}/1.0", <<(quality.score + 5000) \div 10000>>) >>
         \o (IF quality.issues # <<>>
             THEN <<Header("Issues detected:", <<>>)>>
                  \o AsSeq([i \in 1..Len(quality.issues) |->
                              Header("  {issue}", <<quality.issues[i]>>)])
             ELSE <<>>)
         \o <<Header("Recommendations:", <<>>)>>
         \o AsSeq([i \in 1..Len(quality.recommendations) |->
                     Header("  {rec}", <<quality.recommendations[i]>>)])
         \o <<Blank>>

Compromised ==
    [kind |-> "InvalidHexString",
     message |-> "Entropy appears to be severely compromised",
     position |-> None,
     hint |-> "System RNG may be broken. Consider restarting or using hardware RNG."]

PassReadFailed ==
    [kind |-> "InvalidHexString", message |-> "Failed to read secure passphrase: {e}",
     position |-> None, hint |-> "Ensure terminal supports secure input"]

GenerateMnemonicLines(opts, mnemonic) ==
    (IF ~opts.quiet
     THEN << Header("Generated Mnemonic", <<>>), Rule,
             Header("Words: {}", <<to_word_count(opts.words)>>),
             Header("Entropy: {} bits", <<to_entropy_bits(opts.words)>>),
             Blank >>
     ELSE <<>>)
    \o << Data("mnemonic", MnemonicDisplay(mnemonic)) >>

GenerateEntropyLines(opts, entropy) ==
    IF ~opts.show_entropy THEN <<>>
    ELSE <<Blank>>
         \o (IF ~opts.quiet
             THEN << Header("Raw Entropy", <<>>), Rule,
                     Header("Bits: {}", <<to_entropy_bits(opts.words)>>),
                     Header("Bytes: {}", <<Len(entropy)>>),
                     Blank >>
             ELSE <<>>)
         \o << Data("entropy", hex_encode(entropy)) >>

GenerateSeedLines(opts, final_passphrase, seed) ==
    (IF ~opts.quiet
     THEN (IF ~opts.show_entropy THEN <<Blank>> ELSE <<>>)
          \o << Header("Derived Seed", <<>>), Rule,
                Header("Length: 512 bits (64 bytes)", <<>>),
                Header(IF final_passphrase = <<>> THEN "Passphrase: None"
                       ELSE "Passphrase: Used", <<>>),
                Blank >>
     ELSE IF opts.show_entropy THEN <<Blank>> ELSE <<>>)
    \o << Data("seed", hex_encode(seed)) >>

\* handle_generate from the derivation of the seed to the end
GenerateDerive(opts, mnemonic, final_passphrase, printed, m) ==
    Outcome(printed \o GenerateSeedLines(opts, final_passphrase,
                                         to_seed(mnemonic, final_passphrase)),
            Ok,
            [m EXCEPT !.seed = "zeroized", !.entropy = "zeroized"])

\* The passphrase is read at the prompt; read is what secure_input gave
GenerateSecurePass(opts, mnemonic, read, printed, m) ==
    IF ~read.ok THEN Outcome(printed, Err(PassReadFailed), m)
    ELSE IF ~opts.quiet /\ assess_passphrase_strength(read.text).score < 60000
    THEN Outcome(printed \o AnalysisLines(assess_passphrase_strength(read.text), opts.quiet),
                 Err(TooWeak),
                 [m EXCEPT !.secure_pass = "zeroized"])
    ELSE GenerateDerive(opts, mnemonic, read.text,
                        printed \o (IF ~opts.quiet
                                    THEN AnalysisLines(assess_passphrase_strength(read.text),
                                                       opts.quiet)
                                    ELSE <<>>),
                        [m EXCEPT !.secure_pass = "live"])

\* handle_generate from the point where the mnemonic and the entropy have
\* been printed
GenerateSeed(opts, mnemonic, printed, m, tty) ==
    IF ~opts.show_seed THEN Outcome(printed, Ok, [m EXCEPT !.entropy = "zeroized"])
    ELSE IF opts.secure_passphrase
    THEN GenerateSecurePass(opts, mnemonic,
                            secure_input("Enter passphrase for seed derivation:", tty),
                            printed, m)
    ELSE GenerateDerive(opts, mnemonic, opts.passphrase, printed, m)

\* The entropy printed before the mnemonic
GenerateBuildEntropyFirst(opts, entropy, made, printed, tty) ==
    IF ~made.ok
    THEN Outcome(printed, Err(FromBip39Error(made.err)), [NoMem EXCEPT !.entropy = "live"])
    ELSE GenerateSeed(opts, made.mnemonic,
                      printed \o GenerateEntropyLines(opts, entropy)
                              \o GenerateMnemonicLines(opts, made.mnemonic),
                      [NoMem EXCEPT !.entropy = "live"], tty)

\* handle_generate from the point where the mnemonic has been made
GenerateBuild(opts, entropy, made, printed, tty) ==
    IF ~made.ok
    THEN Outcome(printed, Err(FromBip39Error(made.err)), [NoMem EXCEPT !.entropy = "live"])
    ELSE GenerateSeed(opts, made.mnemonic,
                      printed \o GenerateMnemonicLines(opts, made.mnemonic)
                              \o GenerateEntropyLines(opts, entropy),
                      [NoMem EXCEPT !.entropy = "live"], tty)

\* handle_generate from the point where the entropy has been analyzed
GenerateChecked(opts, entropy, quality, tty) ==
    IF opts.analyze_entropy /\ quality.panic
    THEN Outcome(<<>>, Panic, [NoMem EXCEPT !.entropy = "live"])
    ELSE IF opts.analyze_entropy /\ quality.score < 100000
    THEN Outcome(QualityLines(quality, opts.quiet), Err(Compromised),
                 [NoMem EXCEPT !.entropy = "zeroized"])
    ELSE GenerateBuild(opts, entropy, from_entropy_in(LanguageFrom(opts.language), entropy),
                       (IF opts.analyze_entropy THEN QualityLines(quality, opts.quiet)
                        ELSE <<>>)
                       \o (IF ~opts.quiet
                           THEN <<Header("Using cryptographically secure entropy source (OsRng)",
                                         <<>>)>>
                           ELSE <<>>),
                       tty)

handle_generate(opts, entropy, tty) ==
    GenerateChecked(opts, entropy,
                    IF opts.analyze_entropy THEN analyze_entropy_quality(entropy)
                    ELSE [panic |-> FALSE],
                    tty)

----------------------------------------------------------------------------
(* Inputs *)

\* Entropy hex strings are tried up to this length, in bytes and characters.
MaxHexLen == 66
\* Entropy contents 0..MaxPattern are tried for each valid length.
MaxPattern == 3

Fill(n, c) == AsSeq([i \in 1..n |-> c])

\* Entropy contents: all zero, all ones, the bytes a0 a1 a2 .. of the
\* round-trip test, and bytes spread over the range.
EntropyPattern(n, p) ==
    AsSeq([i \in 1..n |->
             CASE p = 0 -> 0
               [] p = 1 -> 255
               [] p = 2 -> (160 + i - 1) % 256
               [] OTHER -> (37 * p * i + 11 * p) % 256])

ToUpperHex(s) ==
    AsSeq([i \in 1..Len(s) |->
             IF s[i] \in Range(HexLower) THEN HexUpper[HexVal(s[i]) + 1] ELSE s[i]])

ValidByteLens == {16, 20, 24, 28, 32}

EntropyInputs == {EntropyPattern(n, p) : n \in ValidByteLens, p \in 0..MaxPattern}

\* Well-formed entropy, in lower and in upper case
GoodHexInputs ==
    {hex_encode(e) : e \in EntropyInputs} \cup {ToUpperHex(hex_encode(e)) : e \in EntropyInputs}

\* Every length, of hex digits only
LengthHexInputs == {Fill(n, "7") : n \in 0..MaxHexLen}

\* One character that is no hex digit, or takes more than one byte, put
\* into a string of hex digits
OddChars == {"g", "G", " ", "U+00E9", "U+3000"}

WithCharAt(s, pos, c) == AsSeq([i \in 1..Len(s) |-> IF i = pos THEN c ELSE s[i]])

BadHexInputs ==
    {WithCharAt(Fill(n, "a"), pos, c) :
        n \in {1, 30, 31, 32, 33, 40, 62, 63, 64, 65}, pos \in {1, 17, 30, 64}, c \in OddChars}
    \cup {WithCharAt(WithCharAt(Fill(n, "B"), 5, c), 9, "z") : n \in {31, 32, 48}, c \in OddChars}

HexInputs == GoodHexInputs \cup LengthHexInputs \cup BadHexInputs

\* Phrases are tried with up to this number of words.
MaxWords == 26

\* The words of the mnemonic of entropy e in language option L, as strings
WordsOf(L, e) ==
    LET m == from_entropy_in(LanguageFrom(L), e).mnemonic
    IN AsSeq([i \in 1..Len(m.words) |-> WordAt(m.lang, m.words[i])])

RECURSIVE JoinWords(_, _, _)
JoinWords(words, i, sep) ==
    IF i > Len(words) THEN <<>>
    ELSE (IF i > 1 THEN sep ELSE <<>>) \o words[i] \o JoinWords(words, i + 1, sep)

\* A phrase as it may be typed: whitespace before, between and after
Layout(words, lay) == lay.lead \o JoinWords(words, 1, lay.sep) \o lay.trail

Plain == [lead |-> <<>>, sep |-> <<" ">>, trail |-> <<>>]

Layouts ==
    { [lead |-> <<" ", " ">>, sep |-> <<" ">>, trail |-> <<" ">>],
      [lead |-> <<>>, sep |-> <<" ", " ">>, trail |-> <<>>],
      [lead |-> <<>>, sep |-> <<"\t">>, trail |-> <<"\n">>],
      [lead |-> <<"U+3000">>, sep |-> <<"U+3000">>, trail |-> <<>>] }

\* A phrase input is <<text, language option>>.
ValidPhrases == {<<Layout(WordsOf(L, e), Plain), L>> : L \in LanguageOption, e \in EntropyInputs}

LayoutPhrases ==
    {<<Layout(WordsOf(L, EntropyPattern(n, 2)), lay), L>> :
        L \in {"English", "Japanese"}, n \in ValidByteLens, lay \in Layouts}

\* A word near the words of L's list but not in it, and its upper case
NearMiss(L) == <<LangChar(LanguageFrom(L)), "b", "c", "z">>
NearMissUpper == <<"E", "B", "C", "Z">>

\* Every number of words, of list words and of unknown words; strings of
\* whitespace only
CountPhrases ==
    {<<Layout(Fill(n, w), Plain), "English">> :
        n \in 0..MaxWords, w \in {WordAt("English", 2), NearMiss("English")}}
    \cup {<<Layout(Fill(n, WordAt("Japanese", 700)), lay), "Japanese">> :
             n \in {11, 12, 13, 24, 25}, lay \in Layouts}
    \cup {<<t, "English">> : t \in {<<" ">>, <<" ", "\t", "\n">>, <<"U+3000", " ">>}}

\* Words that are in no list: two near many list words, one near a single
\* list word, one far from all; and words that differ from a list word in
\* letter case only
UnknownWords == { NearMiss("English"), NearMissUpper }

FarWords == { <<"a","b","a","n","d","o","n","n">>, <<"i","n","v","a","l","i","d">> }

CaseVariants == { <<"A","b","l","e">>, <<"E","B","C","D">> }

ReplaceWord(words, p, w) == [words EXCEPT ![p] = w]

\* One word of a valid phrase replaced
UnknownPhrases ==
    {<<Layout(ReplaceWord(WordsOf("English", EntropyPattern(n, 2)), p, w), Plain), "English">> :
        n \in {16, 32}, p \in {1, 7, 12}, w \in UnknownWords \cup CaseVariants}
    \cup {<<Layout(ReplaceWord(WordsOf("English", EntropyPattern(16, 2)), p, w), Plain), "English">> :
             p \in {1, 12}, w \in FarWords}
    \cup {<<Layout(ReplaceWord(WordsOf(L, EntropyPattern(20, 3)), p, NearMiss(L)), Plain), L>> :
             L \in LanguageOption, p \in {1, 15}}

\* Two words of a valid phrase replaced
TwoUnknownPhrases ==
    {<<Layout(ReplaceWord(ReplaceWord(WordsOf("English", EntropyPattern(24, 2)), p, v), q, w),
              Plain), "English">> :
        p \in {1, 4}, q \in {5, 18}, v \in CaseVariants \cup {NearMiss("English")},
        w \in {NearMiss("English"), NearMissUpper, <<"A","b","l","e">>}}

\* The last word of a valid phrase replaced by its neighbour in the list:
\* the lowest checksum bit is flipped
FlipLast(L, words) ==
    LET idx == find_word(LanguageFrom(L), words[Len(words)])
    IN ReplaceWord(words, Len(words),
                   WordAt(LanguageFrom(L), IF idx % 2 = 0 THEN idx + 1 ELSE idx - 1))

\* The first word replaced by the word 1024 places away: the first bit of
\* the entropy is flipped
FlipFirst(L, words) ==
    ReplaceWord(words, 1, WordAt(LanguageFrom(L), (find_word(LanguageFrom(L), words[1]) + 1024) % WordListSize))

ChecksumPhrases ==
    {<<Layout(FlipLast(L, WordsOf(L, e)), Plain), L>> :
        L \in {"English", "Japanese", "Czech"}, e \in EntropyInputs}
    \cup {<<Layout(FlipFirst(L, WordsOf(L, EntropyPattern(n, 3))), Plain), L>> :
             L \in {"English", "Korean"}, n \in ValidByteLens}

\* A valid phrase read in another language
WrongLanguagePhrases ==
    {<<Layout(WordsOf("Spanish", EntropyPattern(n, 0)), Plain), "French">> : n \in ValidByteLens}

RejectedPhrases ==
    CountPhrases \cup UnknownPhrases \cup TwoUnknownPhrases \cup ChecksumPhrases
    \cup WrongLanguagePhrases

\* Passphrases: none, short, with a common pattern, strong ones, and one of
\* letters outside ASCII
NoPassphrase == <<>>
PassTrezor == <<"T", "R", "E", "Z", "O", "R">>
PassPattern == <<"A", "b", "c", "d", "1", "2", "3", "4", "!", "x", "y", "z">>
PassStaple ==
    <<"c", "o", "r", "r", "e", "c", "t", " ", "h", "o", "r", "s", "e", " ", "b", "a", "t", "t", "e", "r", "y", " ", "s", "t", "a", "p", "l", "e">>
PassMixed == <<"Z", "q", "7", "!", "Z", "q", "7", "!", "Z", "q", "7", "!", "m">>
PassAccents == <<"U+00E9", "U+00E9", "U+00E9", "U+00E9", "U+00E9", "U+00E9", "U+00E9", "U+00E9", "U+00E9", "U+00E9">>

Passphrases == {NoPassphrase, PassTrezor, PassPattern, PassStaple, PassMixed, PassAccents}

\* The terminal of a run that does not use it
NoTty == [writes |-> 0, lines |-> <<>>]
\* More writes than a run makes
ManyWrites == 99

\* What is typed at the prompt for the mnemonic: a valid phrase, phrases
\* with a wrong number of words, with an unknown word, with a word in
\* upper case, with a wrong checksum
TypedValid == Layout(WordsOf("English", EntropyPattern(16, 2)), Plain)

TypedPhrases ==
    { TypedValid,
      Layout(Fill(11, WordAt("English", 2)), Plain),
      Layout(ReplaceWord(WordsOf("English", EntropyPattern(16, 2)), 3, NearMiss("English")), Plain),
      Layout(ReplaceWord(WordsOf("English", EntropyPattern(16, 2)), 3, NearMissUpper), Plain),
      Layout(ReplaceWord(WordsOf("English", EntropyPattern(16, 2)), 3, <<"A","b","l","e">>), Plain),
      Layout(FlipLast("English", WordsOf("English", EntropyPattern(16, 2))), Plain) }

\* Terminals of a run that reads the mnemonic
MnemonicTtys ==
    {[writes |-> ManyWrites, lines |-> <<r>>] :
        r \in {Typed(t) : t \in TypedPhrases} \cup {ReadFails}}
    \cup {[writes |-> w, lines |-> <<Typed(TypedValid)>>] : w \in 0..7}
    \cup {[writes |-> ManyWrites, lines |-> <<>>]}

\* Terminals of a run that reads the mnemonic and then the passphrase
SeedTtys ==
    {[writes |-> ManyWrites, lines |-> <<r>>] :
        r \in {Typed(t) : t \in TypedPhrases} \cup {ReadFails}}
    \cup {[writes |-> ManyWrites, lines |-> <<Typed(TypedValid), r>>] :
             r \in {Typed(t) : t \in Passphrases} \cup {ReadFails}}
    \cup {[writes |-> w, lines |-> <<Typed(TypedValid), Typed(PassStaple)>>] : w \in 0..9}

\* Terminals of a run of generate that reads the passphrase
GenerateTtys ==
    {[writes |-> ManyWrites, lines |-> <<r>>] :
        r \in {Typed(t) : t \in Passphrases} \cup {ReadFails}}
    \cup {[writes |-> w, lines |-> <<Typed(PassStaple)>>] : w \in 0..2}

\* What OsRng may leave in a buffer of n bytes
DrawnEntropy(n) == {EntropyPattern(n, p) : p \in 0..MaxPattern}

GenerateRun(words, language, show_entropy, show_seed, passphrase, secure_passphrase, analyze_entropy, quiet, drawn, tty) ==
    [name |-> "generate", words |-> words, language |-> language,
     show_entropy |-> show_entropy, show_seed |-> show_seed, passphrase |-> passphrase,
     secure_passphrase |-> secure_passphrase, analyze_entropy |-> analyze_entropy,
     quiet |-> quiet, drawn |-> drawn, tty |-> tty]

\* Every number of words and every option in English; every language once;
\* the passphrase at the prompt
GenerateRuns ==
    UNION {{GenerateRun(w, "English", f[1], f[2], ps, FALSE, f[3], f[4], e, NoTty) :
               f \in BOOLEAN \X BOOLEAN \X BOOLEAN \X BOOLEAN,
               ps \in {NoPassphrase, PassTrezor},
               e \in DrawnEntropy(to_entropy_bytes(w))} : w \in WordCount}
    \cup {GenerateRun("Twelve", L, TRUE, TRUE, PassTrezor, FALSE, FALSE, TRUE,
                      EntropyPattern(16, 2), NoTty) : L \in LanguageOption}
    \cup {GenerateRun("Twelve", "English", f[1], f[2], NoPassphrase, TRUE, FALSE, f[3],
                      EntropyPattern(16, 2), t) :
             f \in BOOLEAN \X BOOLEAN \X BOOLEAN, t \in GenerateTtys}

NoCmd == [name |-> "none"]

DataLines(out) == SelectSeq(out, LAMBDA l : l.kind = "data")

----------------------------------------------------------------------------
(* The runs of the program: one command per run.  A piped run feeds the     *)
(* datum the previous command printed to the inverse command.               *)

Init ==
    /\ pc = "idle"
    /\ cmd = NoCmd
    /\ stdout = <<>>
    /\ result = [tag |-> "None"]
    /\ mem = NoMem
    /\ origin = NoCmd
    /\ trace = <<>>

\* The handler runs once; o is what it left behind.
Ran(c, outcome, from) ==
    \E o \in {outcome} :
        /\ pc' = "done"
        /\ cmd' = c
        /\ stdout' = o.out
        /\ result' = o.res
        /\ mem' = o.mem
        /\ origin' = from
        /\ trace' = <<>>

\* The well-formed inputs in every language; the others in two languages.
FromEntropyArgs ==
    (GoodHexInputs \X LanguageOption \X {TRUE})
    \cup (GoodHexInputs \X {"English", "Japanese"} \X {FALSE})
    \cup (LengthHexInputs \X {"English"} \X BOOLEAN)
    \cup (BadHexInputs \X {"English", "ChineseSimplified"} \X {TRUE})

FromEntropyCmd ==
    /\ pc = "idle"
    /\ \E a \in FromEntropyArgs :
          Ran([name |-> "from-entropy", entropy |-> a[1], language |-> a[2], quiet |-> a[3]],
              handle_from_entropy(a[1], a[2], a[3]), NoCmd)

\* Every phrase quietly; the laid out ones and those of two languages with
\* the headers too
EntropyArgs ==
    ((ValidPhrases \cup RejectedPhrases) \X {TRUE})
    \cup (LayoutPhrases \X BOOLEAN)
    \cup ({ph \in ValidPhrases \cup ChecksumPhrases : ph[2] \in {"English", "Korean"}} \X {FALSE})

EntropyCmd ==
    /\ pc = "idle"
    /\ \E a \in EntropyArgs :
          Ran([name |-> "entropy", mnemonic |-> a[1][1], language |-> a[1][2], quiet |-> a[2]],
              handle_entropy(a[1][1], a[1][2], a[2]), NoCmd)

\* <<phrase input, secure_input, quiet, tty>>
ValidateArgs ==
    ((LayoutPhrases \cup RejectedPhrases) \X {FALSE} \X {TRUE} \X {NoTty})
    \cup ({ph \in ValidPhrases : ph[2] \in {"English", "Japanese", "Spanish"}}
          \X {FALSE} \X BOOLEAN \X {NoTty})
    \cup ((ChecksumPhrases \cup TwoUnknownPhrases) \X {FALSE} \X {FALSE} \X {NoTty})
    \cup ({<<<<>>, "English">>} \X {TRUE} \X BOOLEAN \X MnemonicTtys)

ValidateCmd ==
    /\ pc = "idle"
    /\ \E a \in ValidateArgs :
          Ran([name |-> "validate", mnemonic |-> a[1][1], language |-> a[1][2],
               secure_input |-> a[2], quiet |-> a[3], tty |-> a[4]],
              handle_validate(a[1][1], a[1][2], a[2], a[3], a[4]), NoCmd)

\* <<phrase input, passphrase, secure_input, analyze_passphrase, quiet, tty>>
SeedArgs ==
    ({ph \in ValidPhrases : ph[2] \in {"English", "Japanese"}}
     \X {NoPassphrase, PassTrezor} \X {FALSE} \X {FALSE} \X {TRUE} \X {NoTty})
    \cup ({<<Layout(WordsOf(L, EntropyPattern(n, 2)), Plain), L>> :
              L \in {"English", "Czech"}, n \in {16, 32}}
          \X Passphrases \X {FALSE} \X BOOLEAN \X BOOLEAN \X {NoTty})
    \cup (RejectedPhrases \X {NoPassphrase} \X {FALSE} \X {FALSE} \X {TRUE} \X {NoTty})
    \cup ((ChecksumPhrases \cup TwoUnknownPhrases)
          \X {PassStaple} \X {FALSE} \X {TRUE} \X {FALSE} \X {NoTty})
    \cup ({<<<<>>, "English">>} \X {NoPassphrase, PassMixed} \X {TRUE} \X BOOLEAN \X BOOLEAN
          \X SeedTtys)

SeedCmd ==
    /\ pc = "idle"
    /\ \E a \in SeedArgs :
          Ran([name |-> "seed", mnemonic |-> a[1][1], passphrase |-> a[2],
               secure_input |-> a[3], analyze_passphrase |-> a[4],
               language |-> a[1][2], quiet |-> a[5], tty |-> a[6]],
              handle_seed(a[1][1], a[2], a[3], a[4], a[1][2], a[5], a[6]), NoCmd)

\* bip39 entropy "$(bip39 from-entropy E --language L)" --language L
PipeToEntropy ==
    /\ pc = "done"
    /\ cmd.name = "from-entropy"
    /\ result = Ok
    /\ origin = NoCmd
    /\ \E quiet \in BOOLEAN :
          Ran([name |-> "entropy", mnemonic |-> DataLines(stdout)[1].args,
               language |-> cmd.language, quiet |-> quiet],
              handle_entropy(DataLines(stdout)[1].args, cmd.language, quiet), cmd)

\* bip39 from-entropy "$(bip39 entropy M --language L)" --language L
PipeToFromEntropy ==
    /\ pc = "done"
    /\ cmd.name = "entropy"
    /\ result = Ok
    /\ origin = NoCmd
    /\ Ran([name |-> "from-entropy", entropy |-> DataLines(stdout)[1].args,
            language |-> cmd.language, quiet |-> TRUE],
           handle_from_entropy(DataLines(stdout)[1].args, cmd.language, TRUE), cmd)

\* bip39 generate; the entropy is what the generator of the system gives
GenerateCmd ==
    /\ pc = "idle"
    /\ \E c \in GenerateRuns : Ran(c, handle_generate(c, c.drawn, c.tty), NoCmd)

\* The handler run_command calls for the command c
HandlerOf(c) ==
    CASE c.name = "generate" -> handle_generate(c, c.drawn, c.tty)
      [] c.name = "from-entropy" -> handle_from_entropy(c.entropy, c.language, c.quiet)
      [] c.name = "entropy" -> handle_entropy(c.mnemonic, c.language, c.quiet)
      [] c.name = "validate" ->
            handle_validate(c.mnemonic, c.language, c.secure_input, c.quiet, c.tty)
      [] c.name = "seed" ->
            handle_seed(c.mnemonic, c.passphrase, c.secure_input, c.analyze_passphrase,
                        c.language, c.quiet, c.tty)

\* What a second run is compared with: the first run and what it left
FirstRun == [name |-> "again", cmd |-> cmd, result |-> result, data |-> DataLines(stdout)]

\* bip39 entropy on the phrase and language bip39 validate was given
EntropyAfterValidate ==
    /\ pc = "done"
    /\ origin = NoCmd
    /\ cmd.name = "validate"
    /\ ~cmd.secure_input
    /\ Ran([name |-> "entropy", mnemonic |-> cmd.mnemonic, language |-> cmd.language,
            quiet |-> cmd.quiet],
           handle_entropy(cmd.mnemonic, cmd.language, cmd.quiet),
           [FirstRun EXCEPT !.name = "validated"])

\* The same command once more, on the same arguments and with the same text
\* typed at the prompts, --quiet given where it was not and left out where
\* it was given
QuietAgain ==
    /\ pc = "done"
    /\ origin = NoCmd
    /\ Ran([cmd EXCEPT !.quiet = ~cmd.quiet],
           HandlerOf([cmd EXCEPT !.quiet = ~cmd.quiet]), FirstRun)

\* bip39 seed once more on the same mnemonic, passphrase and language, the
\* other options free
SeedAgain ==
    /\ pc = "done"
    /\ origin = NoCmd
    /\ cmd.name = "seed"
    /\ ~cmd.secure_input
    /\ \E analyze \in BOOLEAN :
          Ran([cmd EXCEPT !.analyze_passphrase = analyze],
              HandlerOf([cmd EXCEPT !.analyze_passphrase = analyze]), FirstRun)

Reset ==
    /\ pc = "done"
    /\ pc' = "idle"
    /\ cmd' = NoCmd
    /\ stdout' = <<>>
    /\ result' = [tag |-> "None"]
    /\ mem' = NoMem
    /\ origin' = NoCmd
    /\ trace' = <<>>

Next ==
    \/ GenerateCmd
    \/ FromEntropyCmd
    \/ EntropyCmd
    \/ ValidateCmd
    \/ SeedCmd
    \/ PipeToEntropy
    \/ PipeToFromEntropy
    \/ EntropyAfterValidate
    \/ QuietAgain
    \/ SeedAgain
    \/ Reset

Spec == Init /\ [][Next]_vars

----------------------------------------------------------------------------
(* What the properties speak of.  These are defined from the inputs of a    *)
(* run, not from what the handlers computed.                                *)

Ran1 == pc = "done"

\* The run decodes a phrase
PhraseCmd == Ran1 /\ cmd.name \in {"validate", "entropy", "seed"}

\* The phrase is read at the prompt
AtPrompt == cmd.name \in {"validate", "seed"} /\ cmd.secure_input

\* The phrase has reached the decoder: it was an argument, or the terminal
\* took the seven writes before the prompt and gave a line
PhraseRead ==
    AtPrompt => (cmd.tty.writes >= 7 /\ cmd.tty.lines # <<>> /\ cmd.tty.lines[1].ok)

GivenPhrase ==
    IF ~AtPrompt THEN cmd.mnemonic
    ELSE IF cmd.tty.lines # <<>> /\ cmd.tty.lines[1].ok THEN cmd.tty.lines[1].text
    ELSE <<>>

GivenWords == split_whitespace(GivenPhrase)

\* The starts of the maximal runs of characters that are no whitespace
RunStarts(s) ==
    {i \in 1..Len(s) : ~IsWhitespace(s[i]) /\ (i = 1 \/ IsWhitespace(s[i - 1]))}

ValidCount == Cardinality(RunStarts(GivenPhrase)) \in {12, 15, 18, 21, 24}

\* Membership in the list of the run's language, whatever the letter case
InList(w) == WordListContains(LanguageFrom(cmd.language), ToLowercase(w))

\* Membership character for character
InListExactly(w) == WordListContains(LanguageFrom(cmd.language), w)

\* The positions of the words that are in the list in no letter case
UnknownAmong(words) == {i \in 1..Len(words) : ~InList(words[i])}

UnknownAt == UnknownAmong(GivenWords)

IndicesOf(words) ==
    AsSeq([i \in 1..Len(words) |-> find_word(LanguageFrom(cmd.language), words[i])])

\* The last Len / 3 bits of the last word are the first bits of the digest
\* of the bytes before them
ChecksumOf(indices) ==
    indices[Len(indices)] % Pow2[(Len(indices) \div 3) + 1]
    = Sha256FirstByte(to_entropy([words |-> indices])) \div Pow2[9 - (Len(indices) \div 3)]

ChecksumMatches == ChecksumOf(IndicesOf(GivenWords))

AllExactly(words) == \A i \in 1..Len(words) : InListExactly(words[i])

AllInList == AllExactly(GivenWords)

ValidMnemonic == ValidCount /\ AllInList /\ ChecksumMatches

ChecksumBroken == ValidCount /\ AllInList /\ ~ChecksumMatches

IsErr(kind) == result.tag = "Err" /\ result.err.kind = kind

IsMnemonicError(kind) == IsErr("MnemonicError") /\ result.err.inner.kind = kind

\* Entropy of 16, 20, 24, 28 or 32 bytes, written in hex digits
WellFormedHex(s) ==
    /\ Len(s) \in {32, 40, 48, 56, 64}
    /\ \A i \in 1..Len(s) : s[i] \in Range(HexLower) \cup Range(HexUpper)

BytesOf(hex) == hex_decode(hex).bytes

----------------------------------------------------------------------------
(* Properties *)

TheData == DataLines(stdout)[1].args

\* C1: for every entropy E of 16, 20, 24, 28 or 32 bytes and every
\* language L, from-entropy succeeds on E and prints one mnemonic, and the
\* entropy command, given that mnemonic and L, succeeds and prints exactly
\* the bytes of E.
C1_EntropyRoundTrip ==
    /\ (Ran1 /\ cmd.name = "from-entropy" /\ origin = NoCmd /\ WellFormedHex(cmd.entropy))
          => (result = Ok /\ Len(DataLines(stdout)) = 1)
    /\ (Ran1 /\ cmd.name = "entropy" /\ origin.name = "from-entropy")
          => /\ cmd.language = origin.language
             /\ result = Ok
             /\ Len(DataLines(stdout)) = 1
             /\ BytesOf(TheData) = BytesOf(origin.entropy)

C1_Witness ==
    /\ Ran1 /\ cmd.name = "entropy" /\ origin.name = "from-entropy"
    /\ origin.language = "Japanese"
    /\ Len(origin.entropy) = 64
    /\ BytesOf(origin.entropy)[1] = 160
    /\ result = Ok

\* C2: for every valid mnemonic M over language L (a valid number of words,
\* all in L's list, with the right checksum), however its words are spaced,
\* the entropy command succeeds, and from-entropy, given the entropy it
\* printed and L, prints the words of M in the same order.
C2_MnemonicRoundTrip ==
    /\ (Ran1 /\ cmd.name = "entropy" /\ origin = NoCmd /\ ValidMnemonic)
          => (result = Ok /\ Len(DataLines(stdout)) = 1)
    /\ (Ran1 /\ cmd.name = "from-entropy" /\ origin.name = "entropy")
          => /\ cmd.language = origin.language
             /\ result = Ok
             /\ Len(DataLines(stdout)) = 1
             /\ split_whitespace(TheData) = split_whitespace(origin.mnemonic)
             /\ TheData = JoinWords(split_whitespace(origin.mnemonic), 1, <<" ">>)

C2_Witness ==
    /\ Ran1 /\ cmd.name = "from-entropy" /\ origin.name = "entropy"
    /\ origin.language = "Japanese"
    /\ origin.mnemonic[1] = "U+3000"
    /\ Len(split_whitespace(origin.mnemonic)) = 24
    /\ result = Ok

\* C3: from-entropy succeeds if and only if its argument has 32, 40, 48, 56
\* or 64 characters, all of them ASCII hex digits; every other argument is
\* rejected by validate_entropy_hex, with InvalidEntropyLength or
\* InvalidHexString, and nothing is printed.
C3_EntropyHexAccepted ==
    (Ran1 /\ cmd.name = "from-entropy")
       => /\ (result = Ok) = WellFormedHex(cmd.entropy)
          /\ (validate_entropy_hex(cmd.entropy) = Ok) = WellFormedHex(cmd.entropy)
          /\ ~WellFormedHex(cmd.entropy)
                => /\ result = validate_entropy_hex(cmd.entropy)
                   /\ (IsErr("InvalidEntropyLength") \/ IsErr("InvalidHexString"))
                   /\ stdout = <<>>

C3_Witness ==
    /\ Ran1 /\ cmd.name = "from-entropy"
    /\ Len(cmd.entropy) = 34
    /\ \A i \in 1..34 : IsAsciiHexDigit(cmd.entropy[i])
    /\ IsErr("InvalidEntropyLength")
    /\ result.err.actual = 34

\* C4: a command that decodes a phrase gets past validate_mnemonic_word_count
\* if and only if the number of maximal runs of non-whitespace characters
\* of the phrase is 12, 15, 18, 21 or 24; otherwise it returns
\* InvalidWordCount with that number as actual.  The number does not depend
\* on the whitespace around and between the words; a phrase of whitespace
\* only counts 0 and is rejected.
C4_WordCountAccepted ==
    (PhraseCmd /\ PhraseRead)
       => /\ ValidCount = (validate_mnemonic_word_count(GivenPhrase) = Ok)
          /\ ValidCount => ~IsErr("InvalidWordCount")
          /\ ~ValidCount
                => /\ IsErr("InvalidWordCount")
                   /\ result.err.actual = Cardinality(RunStarts(GivenPhrase))
                   /\ stdout = <<>>

C4_Witness ==
    /\ PhraseCmd /\ PhraseRead
    /\ Len(GivenPhrase) = 3
    /\ \A i \in 1..3 : IsWhitespace(GivenPhrase[i])
    /\ IsErr("InvalidWordCount")
    /\ result.err.actual = 0

\* C5: for every WordCount variant w, to_entropy_bytes(w) * 8 =
\* to_entropy_bits(w) and to_word_count(w) * 11 = to_entropy_bits(w) +
\* to_entropy_bits(w) / 32; and the number of words handle_from_entropy
\* reports for entropy of n bytes, which is the number of words it prints,
\* satisfies words * 11 = 8 * n + 8 * n / 32.
C5_WordCountNumerics ==
    /\ \A w \in WordCount :
          /\ to_entropy_bytes(w) * 8 = to_entropy_bits(w)
          /\ to_word_count(w) * 11 = to_entropy_bits(w) + to_entropy_bits(w) \div 32
    /\ {to_entropy_bytes(w) : w \in WordCount} = ValidByteLens
    /\ \A w \in WordCount : ByteLenToWordCount(to_entropy_bytes(w)) = to_word_count(w)
    /\ (Ran1 /\ cmd.name = "from-entropy" /\ result = Ok /\ ~cmd.quiet)
          => LET n == Len(cmd.entropy) \div 2
                 words == stdout[4].args[1]
             IN /\ stdout[3].args = <<8 * n, n>>
                /\ words * 11 = 8 * n + (8 * n) \div 32
                /\ words = Len(split_whitespace(TheData))

C5_Witness ==
    /\ Ran1 /\ cmd.name = "from-entropy" /\ result = Ok /\ ~cmd.quiet
    /\ Len(cmd.entropy) = 56
    /\ stdout[4] = Header("Output words: {}", <<21>>)

\* C6: a phrase with a valid number of words, all in the language's list,
\* whose checksum bits are not those of its entropy, is refused: entropy
\* and seed return the decoder's checksum error and print no entropy and no
\* seed (nothing at all); validate ends the process with exit code 1, and
\* names the checksum error when it is not quiet.
C6_ChecksumMismatch ==
    (PhraseCmd /\ PhraseRead /\ ChecksumBroken)
       => /\ cmd.name \in {"entropy", "seed"}
                => (IsMnemonicError("InvalidChecksum") /\ stdout = <<>>)
          /\ cmd.name = "validate"
                => /\ result = Exit(1)
                   /\ cmd.quiet => stdout = << Data("verdict", <<"invalid">>) >>
                   /\ ~cmd.quiet
                         => stdout[5] = Header("Error: {}", <<[kind |-> "InvalidChecksum"]>>)

C6_Witness ==
    /\ PhraseCmd /\ PhraseRead /\ ChecksumBroken
    /\ cmd.name = "seed"
    /\ cmd.passphrase # <<>>
    /\ Len(GivenWords) = 24
    /\ IsMnemonicError("InvalidChecksum")

\* C7: the number of words is checked first: a phrase with an invalid number
\* of words yields InvalidWordCount in validate, entropy and seed, also when
\* it has unknown words.  The words are checked before the checksum: in
\* validate a phrase with a valid number of words, one of them in the list in
\* no letter case, yields InvalidWord; in entropy and seed a phrase with a
\* valid number of words and a word that is not in the list yields an error
\* about the word, never the checksum error.
C7_CheckOrder ==
    (PhraseCmd /\ PhraseRead)
       => /\ ~ValidCount => IsErr("InvalidWordCount")
          /\ (ValidCount /\ cmd.name = "validate" /\ UnknownAt # {}) => IsErr("InvalidWord")
          /\ (ValidCount /\ cmd.name \in {"entropy", "seed"} /\ ~AllInList)
                => (IsErr("InvalidWord") \/ IsMnemonicError("UnknownWord"))

C7_Witness ==
    /\ PhraseCmd /\ PhraseRead
    /\ cmd.name = "seed"
    /\ Len(GivenWords) = 13
    /\ Cardinality(UnknownAt) = 13
    /\ IsErr("InvalidWordCount")

\* The least element of a set of numbers
Least(S) == CHOOSE i \in S : \A j \in S : i <= j

\* C8: when validate is given a phrase with a valid number of words of which
\* at least one is in the language's list in no letter case, it returns
\* InvalidWord with the leftmost such word, as it was written, and its
\* 1-based position among the words, however many such words follow.
C8_LeftmostUnknownWord ==
    (PhraseCmd /\ PhraseRead /\ cmd.name = "validate" /\ ValidCount /\ UnknownAt # {})
       => /\ IsErr("InvalidWord")
          /\ result.err.position = Least(UnknownAt)
          /\ result.err.word = GivenWords[Least(UnknownAt)]
          /\ stdout = <<>>

C8_Witness ==
    /\ PhraseCmd /\ PhraseRead /\ cmd.name = "validate" /\ ValidCount
    /\ Cardinality(UnknownAt) = 2
    /\ Least(UnknownAt) = 4
    /\ IsErr("InvalidWord")
    /\ result.err.position = 4

\* C9 (as the specification states it): validate, entropy and seed alike
\* return InvalidWord for a phrase with a valid number of words of which one
\* is not in the language's list.
C9_AllReportInvalidWord ==
    (PhraseCmd /\ PhraseRead /\ ValidCount /\ UnknownAt # {}) => IsErr("InvalidWord")

\* C10: the suggestions of an InvalidWord error for a word w number at most
\* 3, each is a word of the language's list, and each lies within edit
\* distance 2 of the lower-case form of w.
C10_SuggestionsNearLowercase ==
    (PhraseCmd /\ IsErr("InvalidWord"))
       => /\ ~InList(result.err.word)
          /\ Len(result.err.suggestions) <= 3
          /\ \A k \in 1..Len(result.err.suggestions) :
                /\ InListExactly(result.err.suggestions[k])
                /\ edit_distance(ToLowercase(result.err.word), result.err.suggestions[k]) <= 2

C10_Witness ==
    /\ PhraseCmd /\ IsErr("InvalidWord")
    /\ result.err.word = NearMissUpper
    /\ Len(result.err.suggestions) = 3

\* C10 (as the specification states it): each suggestion lies within edit
\* distance 2 of w itself.
C10_SuggestionsNearWord ==
    (PhraseCmd /\ IsErr("InvalidWord"))
       => /\ Len(result.err.suggestions) <= 3
          /\ \A k \in 1..Len(result.err.suggestions) :
                /\ InListExactly(result.err.suggestions[k])
                /\ edit_distance(result.err.word, result.err.suggestions[k]) <= 2

\* The suggestions s are the first three (or fewer) words of the list, in
\* list order, within edit distance 2 of w.  When there are three, the words
\* after the third need no look.
FirstThreeWithin(language, w, s) ==
    With(AsSeq([k \in 1..Len(s) |-> find_word(language, s[k])]),
         LAMBDA idx :
            /\ Len(s) <= 3
            /\ \A k \in 1..Len(s) :
                  /\ idx[k] # NotInList
                  /\ k > 1 => idx[k - 1] < idx[k]
                  /\ edit_distance(w, s[k]) <= 2
            /\ \A i \in 0..(IF Len(s) = 3 THEN idx[3] ELSE WordListSize - 1) :
                  edit_distance(w, WordAt(language, i)) <= 2
                     => \E k \in 1..Len(s) : idx[k] = i)

\* C11: the suggestions of an InvalidWord error for a word w are exactly the
\* first three (or fewer, if fewer exist) words of the language's list, in
\* list order, whose edit distance to the lower-case form of w is at most 2:
\* a list word within that distance is left out only when three such words
\* come before it in the list.
C11_FirstThreeOfLowercase ==
    (PhraseCmd /\ IsErr("InvalidWord"))
       => FirstThreeWithin(LanguageFrom(cmd.language), ToLowercase(result.err.word),
                           result.err.suggestions)

C11_Witness ==
    /\ PhraseCmd /\ IsErr("InvalidWord")
    /\ cmd.language = "English"
    /\ result.err.word = <<"a","b","a","n","d","o","n","n">>
    /\ result.err.suggestions = << <<"a","b","a","n","d","o","n">> >>

\* C11 (as the specification states it): the suggestions are the first three
\* list words within edit distance 2 of w as it was written.
C11_FirstThreeOfWord ==
    (PhraseCmd /\ IsErr("InvalidWord"))
       => FirstThreeWithin(LanguageFrom(cmd.language), result.err.word,
                           result.err.suggestions)

----------------------------------------------------------------------------
(* edit_distance on its own: every pair of strings of at most MaxEditLen    *)
(* characters over EditAlphabet (one of them takes two bytes) is drawn,     *)
(* the function is applied, and it is applied again with the arguments     *)
(* exchanged.                                                               *)

MaxEditLen == 3

EditAlphabet == {"a", "b", "U+00E9"}

EditStrings == UNION {{AsSeq(f) : f \in [1..n -> EditAlphabet]} : n \in 0..MaxEditLen}

Value(v) == [tag |-> "Value", value |-> v]

InitEdit ==
    /\ pc = "drawn"
    /\ cmd \in {[name |-> "edit_distance", s1 |-> a, s2 |-> b] : a, b \in EditStrings}
    /\ stdout = <<>>
    /\ result = [tag |-> "None"]
    /\ mem = NoMem
    /\ origin = NoCmd
    /\ trace = <<>>

EditDistanceCall ==
    /\ pc = "drawn"
    /\ pc' = "done"
    /\ result' = Value(edit_distance(cmd.s1, cmd.s2))
    /\ UNCHANGED <<cmd, stdout, mem, origin, trace>>

EditDistanceSwapped ==
    /\ pc = "done"
    /\ origin = NoCmd
    /\ origin' = [name |-> "edit_distance", s1 |-> cmd.s1, s2 |-> cmd.s2,
                  value |-> result.value]
    /\ cmd' = [name |-> "edit_distance", s1 |-> cmd.s2, s2 |-> cmd.s1]
    /\ result' = Value(edit_distance(cmd.s2, cmd.s1))
    /\ UNCHANGED <<pc, stdout, mem, trace>>

NextEdit ==
    \/ EditDistanceCall
    \/ EditDistanceSwapped

SpecEdit == InitEdit /\ [][NextEdit]_vars

Max(a, b) == IF a > b THEN a ELSE b

\* C12: for all strings a and b, edit_distance(a, b) = edit_distance(b, a);
\* edit_distance(a, b) = 0 if and only if a = b; and edit_distance(a, b) is
\* at most the greater of the numbers of characters of a and b.
C12_EditDistanceProperties ==
    (pc = "done")
       => /\ (result.value = 0) = (cmd.s1 = cmd.s2)
          /\ result.value <= Max(Len(cmd.s1), Len(cmd.s2))
          /\ origin # NoCmd
                => /\ origin.s1 = cmd.s2 /\ origin.s2 = cmd.s1
                   /\ result.value = origin.value

C12_Witness ==
    /\ pc = "done"
    /\ origin # NoCmd
    /\ origin.s1 = <<"a", "b", "U+00E9">>
    /\ origin.s2 = <<"b", "a">>
    /\ origin.value = 2
    /\ result.value = 2

----------------------------------------------------------------------------
(* The passphrase of a seed run *)

\* The passphrase is read at the prompt
PassAtPrompt == cmd.name = "seed" /\ cmd.secure_input /\ cmd.passphrase = <<>>

\* The terminal took the two writes of the second prompt and gave a line
PassRead ==
    PassAtPrompt
       => (cmd.tty.writes >= 9 /\ Len(cmd.tty.lines) >= 2 /\ cmd.tty.lines[2].ok)

GivenPassphrase ==
    IF ~PassAtPrompt THEN cmd.passphrase
    ELSE IF Len(cmd.tty.lines) >= 2 /\ cmd.tty.lines[2].ok THEN cmd.tty.lines[2].text
    ELSE <<>>

\* The run rates the passphrase
PassAnalyzed ==
    IF PassAtPrompt THEN cmd.analyze_passphrase \/ ~cmd.quiet
    ELSE cmd.analyze_passphrase /\ cmd.passphrase # <<>>

\* The score of the passphrase is below 0.6
RatedWeak(passphrase) == assess_passphrase_strength(passphrase).score < 60000

IsHexText(s) == \A i \in 1..Len(s) : s[i] \in Range(HexLower)

C14_ValidateIsDecode ==
    /\ (Ran1 /\ cmd.name = "validate" /\ ~cmd.secure_input)
          => /\ (result = Ok) = ValidMnemonic
             /\ result # Ok => (result.tag = "Err" \/ (result.tag = "Exit" /\ result.code # 0))
    /\ (Ran1 /\ cmd.name = "entropy" /\ origin.name = "validated")
          => /\ cmd.mnemonic = origin.cmd.mnemonic
             /\ cmd.language = origin.cmd.language
             /\ (result = Ok) = (origin.result = Ok)
             /\ (result = Ok) = ValidMnemonic

C14_Witness ==
    /\ Ran1 /\ cmd.name = "entropy" /\ origin.name = "validated"
    /\ ChecksumBroken
    /\ origin.result = Exit(1)
    /\ IsMnemonicError("InvalidChecksum")

\* C15 (as the specification states it): whenever handle_generate returns,
\* with success or with an error, the entropy buffer has been zeroized.
C15_GenerateEntropyZeroized ==
    (Ran1 /\ cmd.name = "generate" /\ result.tag \in {"Ok", "Err"})
       => mem.entropy = "zeroized"

\* The seed lines a run has printed
SeedLines == SelectSeq(stdout, LAMBDA l : l.kind = "data" /\ l.text = "seed")

\* C16: a run of seed or generate that has derived a seed has printed it in
\* hex and has zeroized the seed buffer when the handler returns, and then it
\* returns success: no run ends with a seed buffer that still holds the
\* seed, and no error is returned once the seed has been derived.
C16_SeedZeroized ==
    (Ran1 /\ cmd.name \in {"seed", "generate"})
       => /\ mem.seed \in {"none", "zeroized"}
          /\ (mem.seed = "zeroized") = (Len(SeedLines) = 1)
          /\ mem.seed = "none" => SeedLines = <<>>
          /\ mem.seed = "zeroized" => (result = Ok /\ Len(SeedLines[1].args) = 128)
          /\ (result = Ok /\ (cmd.name = "seed" \/ cmd.show_seed)) => mem.seed = "zeroized"

C16_Witness ==
    /\ Ran1 /\ cmd.name = "generate"
    /\ cmd.show_seed /\ cmd.secure_passphrase /\ ~cmd.quiet
    /\ result = Ok
    /\ mem.seed = "zeroized"
    /\ Len(SeedLines) = 1

\* What the decoder makes of the phrase of the run
Decoded == parse_in_normalized(LanguageFrom(cmd.language), GivenPhrase)

\* C17 (as the specification states it): when the decoder refuses the phrase
\* of a run of validate, entropy or seed, the handler returns the decoder's
\* error to its caller: it returns no other error and it does not end the
\* process.
C17_DecodeErrorReturned ==
    (PhraseCmd /\ PhraseRead /\ ValidCount /\ ~ValidMnemonic)
       => /\ result.tag = "Err"
          /\ result.err = FromBip39Error(Decoded.err)

\* C18 (as the specification states it): a run returns an error of the kind
\* InvalidHexString only when it is a run of from-entropy whose hex string is
\* not well formed.
C18_InvalidHexOnlyForHex ==
    (Ran1 /\ IsErr("InvalidHexString"))
       => (cmd.name = "from-entropy" /\ ~WellFormedHex(cmd.entropy))

\* C19: the word of an InvalidWord error, from validate or from the secure
\* input of a mnemonic, is a word of the phrase that was given and is no
\* word of the list of the selected language, neither as it was written nor
\* in lower case.
C19_InvalidWordNotInList ==
    (PhraseCmd /\ IsErr("InvalidWord"))
       => /\ ~InListExactly(result.err.word)
          /\ ~InList(result.err.word)
          /\ result.err.position \in 1..Len(GivenWords)
          /\ GivenWords[result.err.position] = result.err.word

C19_Witness ==
    /\ PhraseCmd /\ IsErr("InvalidWord")
    /\ cmd.name = "seed" /\ cmd.secure_input
    /\ result.err.word = NearMiss("English")
    /\ mem.mnemonic = "zeroized"

\* C20 (as the specification states it): a command run a second time on the
\* same arguments, the same entropy drawn and the same text typed at the
\* prompts, with only --quiet changed, returns success if and only if the
\* first run did, and then prints the same data (the mnemonic, the entropy,
\* the seed).
C20_QuietOnlyHeaders ==
    (Ran1 /\ origin.name = "again" /\ cmd = [origin.cmd EXCEPT !.quiet = ~origin.cmd.quiet])
       => /\ (result = Ok) = (origin.result = Ok)
          /\ (result = Ok /\ cmd.name # "validate") => DataLines(stdout) = origin.data

----------------------------------------------------------------------------
(* src/src/lib.rs: run.  The command line is cli = [security_check,        *)
(* generator, command]; the terminal is the one of the handlers; env says   *)
(* what check_air_gapped_environment finds on the machine.                  *)

\* show_security_warnings writes this many lines, each with write_line(..)?
WarningLines == 22

\* [ok], with the number of lines written and the terminal as it is left
show_security_warnings(tty) ==
    IF tty.writes < WarningLines
    THEN [ok |-> FALSE, err |-> WriteFails, lines |-> Max(tty.writes, 0),
          tty |-> TtyAfter(tty, Max(tty.writes, 0), 0)]
    ELSE [ok |-> TRUE, lines |-> WarningLines, tty |-> TtyAfter(tty, WarningLines, 0)]

\* The error run makes of a failure of show_security_warnings
WarningsFailed ==
    [kind |-> "InvalidHexString",
     message |-> "Failed to display security warnings: {e}",
     position |-> None,
     hint |-> "Terminal may not support colored output"]

\* check_air_gapped_environment: the score in thousandths.  env.net: an
\* interface other than lo is listed; env.x11: /tmp/.X11-unix exists;
\* env.vm: the product name has "virtual" or "vmware" in it.
AirGapWarnings(env) ==
    (IF env.net THEN <<"Network interfaces detected">> ELSE <<>>)
    \o (IF env.x11 THEN <<"X11 server detected">> ELSE <<>>)
    \o (IF env.vm THEN <<"Virtual machine detected">> ELSE <<>>)

AirGapScore(env) ==
    (IF env.net THEN 7 ELSE 10) * (IF env.x11 THEN 9 ELSE 10) * (IF env.vm THEN 8 ELSE 10)

check_air_gapped_environment(env) ==
    [score |-> AirGapScore(env),
     warnings |-> AirGapWarnings(env),
     is_air_gapped |-> AirGapScore(env) > 800 /\ AirGapWarnings(env) = <<>>]

\* The lines run prints of the status
AirGapLines(air_gap_status) ==
    <<Header("Air-Gap Environment Check:", <<>>),
      Header("Score: {:.1}/1.0", <<air_gap_status.score>>)>>
    \o (IF air_gap_status.is_air_gapped
        THEN <<Header("Environment appears to be air-gapped", <<>>)>>
        ELSE <<Header("Environment may not be fully air-gapped", <<>>)>>
             \o AsSeq([i \in 1..Len(air_gap_status.warnings) |->
                         Header("  {warning}", <<air_gap_status.warnings[i]>>)]))

\* src/src/cli.rs: print_completions writes the script of the shell
print_completions(gen) == <<Header("(completion script)", <<gen>>)>>

\* One step of a call of run
Step(what, arg) == [step |-> what, arg |-> arg]

\* What run leaves behind: what a handler leaves, and the steps taken
RunOutcome(o, steps) == [out |-> o.out, res |-> o.res, mem |-> o.mem, steps |-> steps]

\* The command on the terminal as run hands it over
OnTty(command, tty) ==
    IF "tty" \in DOMAIN command THEN [command EXCEPT !.tty = tty] ELSE command

\* run, the arm of cli.security_check
RunSecurityCheck(shown, env) ==
    IF ~shown.ok
    THEN RunOutcome(Outcome(<<>>, Err(WarningsFailed), NoMem),
                    <<Step("warnings", shown.lines)>>)
    ELSE RunOutcome(Outcome(AirGapLines(check_air_gapped_environment(env)), Ok, NoMem),
                    <<Step("warnings", shown.lines), Step("air-gap", 0)>>)

\* The arm of a command that is not quiet, the command run whether the
\* warnings were shown or not
RunWarnedAnyway(command, shown) ==
    RunOutcome(HandlerOf(OnTty(command, shown.tty)),
               <<Step("warnings", shown.lines), Step("command", 0)>>)

\* run, the arm of a command that is not quiet
RunWarned(command, shown) ==
    IF ~shown.ok
    THEN RunOutcome(Outcome(<<>>, Err(WarningsFailed), NoMem),
                    <<Step("warnings", shown.lines)>>)
    ELSE RunOutcome(HandlerOf(OnTty(command, shown.tty)),
                    <<Step("warnings", shown.lines), Step("command", 0)>>)

\* run with the command taking priority over --generate
RunCommandFirst(cli, tty, env) ==
    IF cli.security_check
    THEN RunSecurityCheck(show_security_warnings(tty), env)
    ELSE IF cli.command # None
    THEN IF ~cli.command[1].quiet
         THEN RunWarned(cli.command[1], show_security_warnings(tty))
         ELSE RunOutcome(HandlerOf(OnTty(cli.command[1], tty)), <<Step("command", 0)>>)
    ELSE IF cli.generator # None
    THEN RunOutcome(Outcome(print_completions(cli.generator[1]), Ok, NoMem),
                    <<Step("completions", 0)>>)
    ELSE RunOutcome(Outcome(<<>>, Err([kind |-> "NoCommandProvided"]), NoMem), <<>>)

run(cli, tty, env) ==
    IF cli.security_check
    THEN RunSecurityCheck(show_security_warnings(tty), env)
    ELSE IF cli.generator # None
    THEN RunOutcome(Outcome(print_completions(cli.generator[1]), Ok, NoMem),
                    <<Step("completions", 0)>>)
    ELSE IF cli.command # None
    THEN IF ~cli.command[1].quiet
         THEN RunWarned(cli.command[1], show_security_warnings(tty))
         ELSE RunOutcome(HandlerOf(OnTty(cli.command[1], tty)), <<Step("command", 0)>>)
    ELSE RunOutcome(Outcome(<<>>, Err([kind |-> "NoCommandProvided"]), NoMem), <<>>)

----------------------------------------------------------------------------
(* Calls of run: every combination of the two flags with no command and    *)
(* with a command of each kind, quiet and not, on terminals that fail       *)
(* before, within and after the warnings, on every machine.                 *)

Shells == {"Bash", "Zsh"}

RunCommands ==
    {[name |-> "from-entropy", entropy |-> h, language |-> "English", quiet |-> q] :
        h \in {hex_encode(EntropyPattern(16, 2)), Fill(31, "7")}, q \in BOOLEAN}
    \cup {[name |-> "entropy", mnemonic |-> TypedValid, language |-> "English", quiet |-> q] :
             q \in BOOLEAN}
    \cup {[name |-> "validate", mnemonic |-> IF s THEN <<>> ELSE TypedValid,
           language |-> "English", secure_input |-> s, quiet |-> q, tty |-> NoTty] :
             s \in BOOLEAN, q \in BOOLEAN}
    \cup {[name |-> "seed", mnemonic |-> IF s THEN <<>> ELSE TypedValid,
           passphrase |-> PassTrezor, secure_input |-> s, analyze_passphrase |-> FALSE,
           language |-> "English", quiet |-> q, tty |-> NoTty] :
             s \in BOOLEAN, q \in BOOLEAN}
    \cup {GenerateRun("Twelve", "English", TRUE, TRUE, NoPassphrase, s, FALSE, q,
                      EntropyPattern(16, 2), NoTty) : s \in BOOLEAN, q \in BOOLEAN}

Clis ==
    {[security_check |-> sc, generator |-> g, command |-> c] :
        sc \in BOOLEAN,
        g \in {None} \cup {Some(sh) : sh \in Shells},
        c \in {None} \cup {Some(k) : k \in RunCommands}}

RunTtys ==
    {[writes |-> w, lines |-> l] :
        w \in {0, 10, WarningLines - 1, WarningLines, WarningLines + 4, WarningLines + 7,
               ManyWrites},
        l \in {<<>>, <<Typed(PassStaple)>>, <<Typed(TypedValid), Typed(PassStaple)>>}}

Machines == [net : BOOLEAN, x11 : BOOLEAN, vm : BOOLEAN]

InitRun ==
    /\ pc = "drawn"
    /\ cmd \in {[name |-> "run", cli |-> c, tty |-> t, env |-> e] :
                   c \in Clis, t \in RunTtys, e \in Machines}
    /\ stdout = <<>>
    /\ result = [tag |-> "None"]
    /\ mem = NoMem
    /\ origin = NoCmd
    /\ trace = <<>>

RunCall ==
    /\ pc = "drawn"
    /\ cmd.name = "run"
    /\ \E o \in {run(cmd.cli, cmd.tty, cmd.env)} :
          /\ pc' = "done"
          /\ stdout' = o.out
          /\ result' = o.res
          /\ mem' = o.mem
          /\ trace' = o.steps
    /\ UNCHANGED <<cmd, origin>>

NextRun == RunCall

SpecRun == InitRun /\ [][NextRun]_vars

\* The steps of the call that are of the kind what
StepsOf(what) == {i \in 1..Len(trace) : trace[i].step = what}

RunDone == pc = "done" /\ cmd.name = "run"

\* C21: run executes the subcommand only when neither --security-check nor
\* --generate is given: with --security-check it does the security check
\* and neither writes the completions nor runs the command; with --generate
\* and no --security-check it writes the completions and does not run the
\* command; and it returns NoCommandProvided exactly when there is no
\* subcommand, no --security-check and no --generate.
C21_RunPriority ==
    RunDone
       => /\ (StepsOf("command") # {})
                => (~cmd.cli.security_check /\ cmd.cli.generator = None
                    /\ cmd.cli.command # None)
          /\ cmd.cli.security_check
                => (StepsOf("warnings") = {1} /\ StepsOf("completions") = {}
                    /\ StepsOf("command") = {})
          /\ (~cmd.cli.security_check /\ cmd.cli.generator # None)
                => (trace = <<Step("completions", 0)>>
                    /\ result = Ok
                    /\ stdout = <<Header("(completion script)", <<cmd.cli.generator[1]>>)>>)
          /\ IsErr("NoCommandProvided")
                = (~cmd.cli.security_check /\ cmd.cli.generator = None
                   /\ cmd.cli.command = None)

\* --generate zsh together with a subcommand: the completions are written
\* and the subcommand is not run
C21_Witness ==
    /\ RunDone
    /\ ~cmd.cli.security_check
    /\ cmd.cli.generator = Some("Zsh")
    /\ cmd.cli.command # None
    /\ cmd.cli.command[1].name = "generate"
    /\ trace = <<Step("completions", 0)>>
    /\ DataLines(stdout) = <<>>
    /\ result = Ok

\* C25: for a run of a subcommand (no --security-check, no --generate),
\* show_security_warnings is called, before the command, if and only if
\* the command's quiet flag is unset; and when the terminal does not take
\* all the lines of the warnings the command is not executed and run
\* returns an error.
C25_WarningsBeforeCommand ==
    (RunDone /\ ~cmd.cli.security_check /\ cmd.cli.generator = None /\ cmd.cli.command # None)
       => /\ (StepsOf("warnings") # {}) = ~cmd.cli.command[1].quiet
          /\ StepsOf("warnings") \subseteq {1}
          /\ \A i \in StepsOf("command") :
                /\ i = Len(trace)
                /\ ~cmd.cli.command[1].quiet
                      => (i = 2 /\ trace[1] = Step("warnings", WarningLines))
          /\ cmd.cli.command[1].quiet => trace = <<Step("command", 0)>>
          /\ (~cmd.cli.command[1].quiet /\ cmd.tty.writes < WarningLines)
                => (StepsOf("command") = {} /\ result.tag = "Err" /\ stdout = <<>>)
          /\ (~cmd.cli.command[1].quiet /\ cmd.tty.writes >= WarningLines)
                => trace = <<Step("warnings", WarningLines), Step("command", 0)>>

\* The terminal fails at the last line of the warnings
C25_Witness ==
    /\ RunDone
    /\ ~cmd.cli.security_check /\ cmd.cli.generator = None /\ cmd.cli.command # None
    /\ cmd.cli.command[1].name = "from-entropy"
    /\ ~cmd.cli.command[1].quiet
    /\ cmd.tty.writes = WarningLines - 1
    /\ trace = <<Step("warnings", WarningLines - 1)>>
    /\ IsErr("InvalidHexString")
    /\ result.err.message = "Failed to display security warnings: {e}"

----------------------------------------------------------------------------
(* The Levenshtein distance, from its definition: the least number of      *)
(* insertions, deletions and substitutions of one character that turn one  *)
(* string into the other.  The strings on the way are over EditAlphabet    *)
(* and may be one character longer than the longest string drawn.          *)

Without(s, i) == SubSeq(s, 1, i - 1) \o SubSeq(s, i + 1, Len(s))

WithInserted(s, i, c) == SubSeq(s, 1, i) \o <<c>> \o SubSeq(s, i + 1, Len(s))

\* The strings one insertion, deletion or substitution away from s
OneEdit(s) ==
    {Without(s, i) : i \in 1..Len(s)}
    \cup {WithCharAt(s, i, c) : i \in 1..Len(s), c \in EditAlphabet}
    \cup (IF Len(s) > MaxEditLen THEN {}
          ELSE {WithInserted(s, i, c) : i \in 0..Len(s), c \in EditAlphabet})

\* <<t, k>> for every string t that k edits and no fewer reach from the
\* strings of frontier, which are k edits away from the start
RECURSIVE Reached(_, _, _)
Reached(seen, frontier, k) ==
    IF frontier = {} THEN {}
    ELSE {<<t, k>> : t \in frontier}
         \cup Reached(seen \cup frontier,
                      {t \in UNION {OneEdit(f) : f \in frontier} : t \notin seen \cup frontier},
                      k + 1)

\* The distances from every string drawn
Distances == {<<a, Reached({}, {a}, 0)>> : a \in EditStrings}

Levenshtein(a, b) ==
    CHOOSE k \in 0..(2 * MaxEditLen + 1) :
       <<b, k>> \in (CHOOSE d \in Distances : d[1] = a)[2]

\* C22: edit_distance(a, b) is the Levenshtein distance of a and b, the
\* least number of insertions, deletions and substitutions of one
\* character that turn a into b, counted over characters and not bytes;
\* edit_distance("", s) and edit_distance(s, "") are the number of
\* characters of s.
C22_EditDistanceIsLevenshtein ==
    (pc = "done" /\ cmd.name = "edit_distance")
       => /\ result.value = Levenshtein(cmd.s1, cmd.s2)
          /\ cmd.s1 = <<>> => result.value = Len(cmd.s2)
          /\ cmd.s2 = <<>> => result.value = Len(cmd.s1)

\* A string of two characters and three bytes against the empty string,
\* and against a string it takes a substitution and a deletion to reach
C22_Witness ==
    /\ pc = "done"
    /\ cmd.name = "edit_distance"
    /\ origin # NoCmd
    /\ cmd.s1 = <<"a", "U+00E9", "b">>
    /\ cmd.s2 = <<"U+00E9", "a">>
    /\ ByteLen(cmd.s1) = 4
    /\ result.value = 2
    /\ Levenshtein(<<>>, cmd.s1) = 3

----------------------------------------------------------------------------
\* The positions of the characters that are no hex digit, counted from 0
NonHexAt(s) == {i - 1 : i \in {k \in 1..Len(s) : s[k] \notin Range(HexLower) \cup Range(HexUpper)}}

\* C23: validate_entropy_hex tests the length before the characters.  An
\* argument of from-entropy whose length (in bytes, as str::len counts it)
\* is not 32, 40, 48, 56 or 64 is rejected with InvalidEntropyLength and
\* that length as actual, also when it has characters that are no hex
\* digits; an argument of one of these lengths with such a character is
\* rejected with InvalidHexString, the position being the index, from 0, of
\* the first of them.
C23_LengthBeforeCharacters ==
    (Ran1 /\ cmd.name = "from-entropy")
       => /\ ByteLen(cmd.entropy) \notin {32, 40, 48, 56, 64}
                => /\ IsErr("InvalidEntropyLength")
                   /\ result.err.actual = ByteLen(cmd.entropy)
          /\ (ByteLen(cmd.entropy) \in {32, 40, 48, 56, 64} /\ NonHexAt(cmd.entropy) # {})
                => /\ IsErr("InvalidHexString")
                   /\ result.err.position = Some(Least(NonHexAt(cmd.entropy)))

\* Thirty-three characters, the first of them g
C23_Witness ==
    /\ Ran1 /\ cmd.name = "from-entropy"
    /\ Len(cmd.entropy) = 33
    /\ ByteLen(cmd.entropy) = 33
    /\ NonHexAt(cmd.entropy) = {0}
    /\ cmd.entropy[1] = "g"
    /\ IsErr("InvalidEntropyLength")
    /\ result.err.actual = 33

----------------------------------------------------------------------------
(* The output of generate *)

\* The lines of the output that are not empty
NonEmptyLines == SelectSeq(stdout, LAMBDA l : l # Blank)

\* What each line that is not empty holds
KindsPrinted == AsSeq([i \in 1..Len(NonEmptyLines) |-> NonEmptyLines[i].text])

\* What a quiet generate is to print, in order
KindsAsked ==
    <<"mnemonic">>
    \o (IF cmd.show_entropy THEN <<"entropy">> ELSE <<>>)
    \o (IF cmd.show_seed THEN <<"seed">> ELSE <<>>)

IsPrefix(s, t) == Len(s) <= Len(t) /\ s = SubSeq(t, 1, Len(s))

QuietGenerate == Ran1 /\ cmd.name = "generate" /\ cmd.quiet

\* The entropy line is the entropy drawn, in hex, two characters a byte,
\* and the mnemonic line is the mnemonic of that entropy
EntropyLineOfMnemonic ==
    /\ Len(NonEmptyLines[2].args) = 2 * to_entropy_bytes(cmd.words)
    /\ IsHexText(NonEmptyLines[2].args)
    /\ BytesOf(NonEmptyLines[2].args) = cmd.drawn
    /\ NonEmptyLines[1].args
          = Layout(WordsOf(cmd.language, cmd.drawn), Plain)

----------------------------------------------------------------------------
(* find_invalid_words on its own: phrases of list words in several         *)
(* layouts, phrases with one and with two words replaced by words outside  *)
(* the list or by list words in another letter case, and phrases of 0 to   *)
(* MaxListed words that are all outside the list.                           *)

MaxListed == 5

WordsPhrases ==
    LayoutPhrases \cup UnknownPhrases \cup TwoUnknownPhrases
    \cup {<<Layout(Fill(n, w), Plain), "English">> :
             n \in 0..MaxListed, w \in {NearMiss("English"), <<"A","b","l","e">>}}

InitWords ==
    /\ pc = "drawn"
    /\ cmd \in {[name |-> "find_invalid_words", mnemonic |-> ph[1], language |-> ph[2]] :
                   ph \in WordsPhrases}
    /\ stdout = <<>>
    /\ result = [tag |-> "None"]
    /\ mem = NoMem
    /\ origin = NoCmd
    /\ trace = <<>>

FindInvalidWordsCall ==
    /\ pc = "drawn"
    /\ cmd.name = "find_invalid_words"
    /\ pc' = "done"
    /\ result' = Value(find_invalid_words(cmd.mnemonic, LanguageFrom(cmd.language)))
    /\ UNCHANGED <<cmd, stdout, mem, origin, trace>>

NextWords == FindInvalidWordsCall

SpecWords == InitWords /\ [][NextWords]_vars

\* The positions, from 1, of the words of the phrase whose lower-case form
\* is not in the list of the language
NotListedAt ==
    {i \in 1..Len(split_whitespace(cmd.mnemonic)) :
        ~WordListContains(LanguageFrom(cmd.language),
                          ToLowercase(split_whitespace(cmd.mnemonic)[i]))}

\* C26: find_invalid_words returns one entry for every word of the phrase
\* whose lower-case form is not in the list of the language and none for
\* any other word; the entries are in strictly increasing order of
\* position, the positions count the words from 1, and every entry holds
\* the word as it was written.
C26_InvalidWordsListed ==
    (pc = "done" /\ cmd.name = "find_invalid_words")
       => /\ Len(result.value) = Cardinality(NotListedAt)
          /\ {result.value[k].position : k \in 1..Len(result.value)} = NotListedAt
          /\ \A k \in 1..Len(result.value) :
                /\ result.value[k].position \in 1..Len(split_whitespace(cmd.mnemonic))
                /\ result.value[k].word
                      = split_whitespace(cmd.mnemonic)[result.value[k].position]
                /\ k > 1 => result.value[k - 1].position < result.value[k].position

\* Eighteen words: the fourth a list word in capitals, the fifth a word
\* outside the list in capitals, the others list words
C26_Witness ==
    /\ pc = "done" /\ cmd.name = "find_invalid_words"
    /\ Len(split_whitespace(cmd.mnemonic)) = 18
    /\ split_whitespace(cmd.mnemonic)[4] = <<"E","B","C","D">>
    /\ split_whitespace(cmd.mnemonic)[5] = <<"E","B","C","Z">>
    /\ Len(result.value) = 1
    /\ result.value[1].position = 5
    /\ result.value[1].word = <<"E","B","C","Z">>

----------------------------------------------------------------------------
(* The analysis of entropy on its own: has_repeating_pattern and           *)
(* analyze_entropy_quality applied to slices of 0 bytes up to the 32 bytes  *)
(* of a mnemonic of 24 words, with the contents of DrawnEntropy.            *)

QualityInputs == UNION {DrawnEntropy(n) : n \in 0..to_entropy_bytes("TwentyFour")}

InitQuality ==
    /\ pc = "drawn"
    /\ cmd \in {[name |-> f, data |-> d] :
                   f \in {"has_repeating_pattern", "analyze_entropy_quality"},
                   d \in QualityInputs}
    /\ stdout = <<>>
    /\ result = [tag |-> "None"]
    /\ mem = NoMem
    /\ origin = NoCmd
    /\ trace = <<>>

\* What the call leaves: the value returned, or that the thread panicked
Returned(r) == IF r.panic THEN Panic ELSE Value(r)

HasRepeatingPatternCall ==
    /\ pc = "drawn"
    /\ cmd.name = "has_repeating_pattern"
    /\ pc' = "done"
    /\ result' = Returned(has_repeating_pattern(cmd.data))
    /\ UNCHANGED <<cmd, stdout, mem, origin, trace>>

AnalyzeEntropyQualityCall ==
    /\ pc = "drawn"
    /\ cmd.name = "analyze_entropy_quality"
    /\ pc' = "done"
    /\ result' = Returned(analyze_entropy_quality(cmd.data))
    /\ UNCHANGED <<cmd, stdout, mem, origin, trace>>

NextQuality ==
    \/ HasRepeatingPatternCall
    \/ AnalyzeEntropyQualityCall

SpecQuality == InitQuality /\ [][NextQuality]_vars

\* C27: has_repeating_pattern, and with it analyze_entropy_quality, returns
\* a value for a slice of every length from 0 to 32: no subtraction
\* underflows and no slice is out of range, also for 4, 5 and 6 bytes
\* without a repetition of two bytes.
C27_PatternCheckCompletes ==
    (pc = "done" /\ cmd.name \in {"has_repeating_pattern", "analyze_entropy_quality"})
       => result.tag = "Value"

----------------------------------------------------------------------------
\* C28: when secure_mnemonic_input has read a line and returns an error,
\* because the number of words is not valid or because a word is not in
\* the list, the text it read has been zeroized.
C28_TypedMnemonicZeroized ==
    (Ran1 /\ AtPrompt /\ PhraseRead /\ (~ValidCount \/ UnknownAt # {}))
       => /\ result.tag = "Err"
          /\ mem.mnemonic = "zeroized"

----------------------------------------------------------------------------
\* C29: in handle_validate, whenever the parser rejects the phrase for a
\* word it does not find in the list (the phrase has a valid number of
\* words and a word that is no list word, character for character),
\* find_invalid_words has an entry and the handler returns InvalidWord; it
\* does not print the generic result and end the process.  This holds also
\* for a word that differs from a list word in letter case only.
C29_UnknownWordIsInvalidWord ==
    (Ran1 /\ cmd.name = "validate" /\ PhraseRead /\ ValidCount /\ ~AllInList)
       => /\ IsErr("InvalidWord")
          /\ result.tag # "Exit"

----------------------------------------------------------------------------
\* C30: in handle_from_entropy, when validate_entropy_hex has accepted the
\* argument, hex::decode succeeds and gives 16, 20, 24, 28 or 32 bytes, and
\* the handler returns Ok with the bytes zeroized.  So no run of
\* from-entropy returns the InvalidEntropyLength of the fallback arm, a hex
\* or a mnemonic error, and no run ends with the entropy bytes in memory:
\* the only return after the bytes exist is the successful one.
C30_FallbackUnreachable ==
    (Ran1 /\ cmd.name = "from-entropy")
       => /\ validate_entropy_hex(cmd.entropy) = Ok
                => /\ hex_decode(cmd.entropy).ok
                   /\ Len(hex_decode(cmd.entropy).bytes) \in {16, 20, 24, 28, 32}
                   /\ result = Ok
                   /\ mem.entropy = "zeroized"
          /\ validate_entropy_hex(cmd.entropy) # Ok
                => /\ result = validate_entropy_hex(cmd.entropy)
                   /\ mem.entropy = "none"
          /\ ~IsErr("HexDecodeError") /\ ~IsErr("MnemonicError")
          /\ IsErr("InvalidEntropyLength") => result.err.actual = ByteLen(cmd.entropy)
          /\ mem.entropy # "live"

\* Fifty-six hex digits in upper case: 28 bytes, 21 words
C30_Witness ==
    /\ Ran1 /\ cmd.name = "from-entropy"
    /\ Len(cmd.entropy) = 56
    /\ cmd.entropy[1] = "A"
    /\ validate_entropy_hex(cmd.entropy) = Ok
    /\ Len(hex_decode(cmd.entropy).bytes) = 28
    /\ result = Ok
    /\ Len(split_whitespace(TheData)) = 21
    /\ mem.entropy = "zeroized"

====
